---------------------------- MODULE Spec2Model ----------------------------
(***************************************************************************)
(* codesift: structural matcher (matcher.zig), match-set algebra, rule     *)
(* bytecode VM (rule_engine.zig) and the slot tables of the host ABI       *)
(* (main.zig).  Text, node kinds and bytecode are sequences of bytes.      *)
(***************************************************************************)
EXTENDS Integers, Sequences, FiniteSets, TLC

(***************************************************************************)
(* Bounds of the model.                                                    *)
(***************************************************************************)
MaxArgs == 3        \* longest argument list of a generated call source
MaxOps == 2         \* host calls explored from an initial slot configuration
MaxRuleOps == 3     \* rule-engine calls explored from the empty instance
MaxLifeOps == 3     \* lifecycle calls explored from an initial slot configuration
MaxDecodeOps == 2   \* load_ruleset calls made with one bytecode buffer
MaxSearchOps == 2   \* host calls made next to a search run
ManyOuter == 9      \* calls in the argument list of the large source
ManyInner == 8      \* arguments of each of them
MaxListLen == 2     \* longest generated operand of a list operation
MaxSharedOps == 3   \* calls made after the first ruleset is loaded

(***************************************************************************)
(* Program constants.                                                      *)
(***************************************************************************)
MAX_BINDINGS == 16
MAX_BINDING_TEXT == 256
MAX_BINDING_NAME == 64
MAX_MATCHES == 64
MAX_DEPTH == 100
MAX_WALK_DEPTH == 200

(***************************************************************************)
(* Byte strings: node kinds of the grammar and the texts used as inputs.   *)
(***************************************************************************)
K_program == <<112, 114, 111, 103, 114, 97, 109>>   \* "program"
K_expression_statement == <<101, 120, 112, 114, 101, 115, 115, 105, 111, 110, 95, 115, 116, 97, 116, 101, 109, 101, 110, 116>>   \* "expression_statement"
K_call_expression == <<99, 97, 108, 108, 95, 101, 120, 112, 114, 101, 115, 115, 105, 111, 110>>   \* "call_expression"
K_identifier == <<105, 100, 101, 110, 116, 105, 102, 105, 101, 114>>   \* "identifier"
K_arguments == <<97, 114, 103, 117, 109, 101, 110, 116, 115>>   \* "arguments"
K_member_expression == <<109, 101, 109, 98, 101, 114, 95, 101, 120, 112, 114, 101, 115, 115, 105, 111, 110>>   \* "member_expression"
K_property_identifier == <<112, 114, 111, 112, 101, 114, 116, 121, 95, 105, 100, 101, 110, 116, 105, 102, 105, 101, 114>>   \* "property_identifier"
K_try_statement == <<116, 114, 121, 95, 115, 116, 97, 116, 101, 109, 101, 110, 116>>   \* "try_statement"
K_statement_block == <<115, 116, 97, 116, 101, 109, 101, 110, 116, 95, 98, 108, 111, 99, 107>>   \* "statement_block"
K_variable_declaration == <<118, 97, 114, 105, 97, 98, 108, 101, 95, 100, 101, 99, 108, 97, 114, 97, 116, 105, 111, 110>>   \* "variable_declaration"
K_variable_declarator == <<118, 97, 114, 105, 97, 98, 108, 101, 95, 100, 101, 99, 108, 97, 114, 97, 116, 111, 114>>   \* "variable_declarator"
K_catch_clause == <<99, 97, 116, 99, 104, 95, 99, 108, 97, 117, 115, 101>>   \* "catch_clause"
K_comment == <<99, 111, 109, 109, 101, 110, 116>>   \* "comment"
K_html_comment == <<104, 116, 109, 108, 95, 99, 111, 109, 109, 101, 110, 116>>   \* "html_comment"
T_foo == <<102, 111, 111>>   \* "foo"
T_eval == <<101, 118, 97, 108>>   \* "eval"
T_bar == <<98, 97, 114>>   \* "bar"
T_a == <<97>>   \* "a"
T_b == <<98>>   \* "b"
T_x == <<120>>   \* "x"
T_y == <<121>>   \* "y"
T_r == <<114>>   \* "r"
T_s == <<115>>   \* "s"
T_e == <<101>>   \* "e"
T_X == <<36, 88>>   \* "$X"
T_Y == <<36, 89>>   \* "$Y"
T_A3 == <<36, 36, 36, 65>>   \* "$$$A"
T_FN == <<36, 70, 78>>   \* "$FN"
T_ARGS3 == <<36, 36, 36, 65, 82, 71, 83>>   \* "$$$ARGS"
T_dots == <<46, 46, 46>>   \* "..."
T_lparen == <<40>>   \* "("
T_obj == <<111, 98, 106>>   \* "obj"
T_dot == <<46>>   \* "."
T_rparen == <<41>>   \* ")"
T_comma == <<44>>   \* ","
T_sep == <<44, 32>>   \* ", "
\* an identifier one byte longer than a binding can hold
T_long == [i \in 1..(MAX_BINDING_TEXT + 1) |-> 97]

(***************************************************************************)
(* Syntax trees as the parser hands them to the matcher.  A node carries   *)
(* its kind, its text (the source bytes it spans), its byte range, its     *)
(* named children (kids) and all its children (akids).                     *)
(***************************************************************************)
Leaf(kind, text, at) ==
  [kind |-> kind, text |-> text, sb |-> at, eb |-> at + Len(text),
   named |-> TRUE, kids |-> <<>>, akids |-> <<>>]

Tok(text, at) ==
  [kind |-> text, text |-> text, sb |-> at, eb |-> at + Len(text),
   named |-> FALSE, kids |-> <<>>, akids |-> <<>>]

Wrap(kind, inner) ==
  [kind |-> kind, text |-> inner.text, sb |-> inner.sb, eb |-> inner.eb,
   named |-> TRUE, kids |-> <<inner>>, akids |-> <<inner>>]

RECURSIVE JoinArgs(_, _)
JoinArgs(args, i) ==
  IF i > Len(args) THEN <<>>
  ELSE IF i = Len(args) THEN args[i]
  ELSE args[i] \o T_sep \o JoinArgs(args, i + 1)

RECURSIVE ArgAt(_, _, _)
ArgAt(args, i, at) ==
  IF i = 1 THEN at + 1 ELSE ArgAt(args, i - 1, at) + Len(args[i - 1]) + 2

RECURSIVE ArgTokens(_, _, _)
ArgTokens(args, i, at) ==
  IF i > Len(args) THEN <<>>
  ELSE <<Leaf(K_identifier, args[i], ArgAt(args, i, at))>>
       \o (IF i < Len(args)
           THEN <<Tok(T_comma, ArgAt(args, i, at) + Len(args[i]))>>
           ELSE <<>>)
       \o ArgTokens(args, i + 1, at)

ArgumentsNode(args, at) ==
  LET text == T_lparen \o JoinArgs(args, 1) \o T_rparen
  IN [kind |-> K_arguments, text |-> text, sb |-> at, eb |-> at + Len(text),
      named |-> TRUE,
      kids |-> [i \in 1..Len(args) |-> Leaf(K_identifier, args[i], ArgAt(args, i, at))],
      akids |-> <<Tok(T_lparen, at)>> \o ArgTokens(args, 1, at)
                \o <<Tok(T_rparen, at + Len(text) - 1)>>]

CallNode(callee, args, at) ==
  LET f == Leaf(K_identifier, callee, at)
      a == ArgumentsNode(args, at + Len(callee))
  IN [kind |-> K_call_expression, text |-> callee \o a.text, sb |-> at, eb |-> a.eb,
      named |-> TRUE, kids |-> <<f, a>>, akids |-> <<f, a>>]

\* the tree of the one-statement program `callee(arg, ...)`
CallTree(callee, args) ==
  Wrap(K_program, Wrap(K_expression_statement, CallNode(callee, args, 0)))

(***************************************************************************)
(* matcher.zig: bindings                                                   *)
(***************************************************************************)
EmptyBindings == <<>>

\* Bindings.get: the text bound to name, or the marker "none"
BindingsHas(bs, name) == \E i \in 1..Len(bs) : bs[i].name = name

BindingsGet(bs, name) ==
  LET i == CHOOSE k \in 1..Len(bs) :
             bs[k].name = name /\ \A j \in 1..(k - 1) : bs[j].name # name
  IN bs[i].text

\* a bind that forgets to unify: a second bind of a name always succeeds
bind_NoUnify(bs, name, text, start, end) ==
  IF BindingsHas(bs, name) THEN [ok |-> TRUE, b |-> bs]
  ELSE IF Len(bs) >= MAX_BINDINGS THEN [ok |-> FALSE, b |-> bs]
  ELSE IF Len(name) > MAX_BINDING_NAME \/ Len(text) > MAX_BINDING_TEXT
       THEN [ok |-> FALSE, b |-> bs]
  ELSE [ok |-> TRUE,
        b |-> Append(bs, [name |-> name, text |-> text,
                          start_byte |-> start, end_byte |-> end])]

bind(bs, name, text, start, end) ==
  IF BindingsHas(bs, name) THEN [ok |-> BindingsGet(bs, name) = text, b |-> bs]
  ELSE IF Len(bs) >= MAX_BINDINGS THEN [ok |-> FALSE, b |-> bs]
  ELSE IF Len(name) > MAX_BINDING_NAME \/ Len(text) > MAX_BINDING_TEXT
       THEN [ok |-> FALSE, b |-> bs]
  ELSE [ok |-> TRUE,
        b |-> Append(bs, [name |-> name, text |-> text,
                          start_byte |-> start, end_byte |-> end])]

(***************************************************************************)
(* matcher.zig: match lists                                                *)
(***************************************************************************)
EmptyList == <<>>

\* an add without the capacity check
MatchListAdd_Unchecked(list, m) == Append(list, m)

MatchListAdd(list, m) ==
  IF Len(list) < MAX_MATCHES THEN Append(list, m) ELSE list

\* an isDuplicate that finds no entry
isDuplicate_Never(list, start, end) == FALSE

isDuplicate(list, start, end) ==
  \E i \in 1..Len(list) : list[i].start_byte = start /\ list[i].end_byte = end

\* every input of the model is a single line: row 0, column = byte offset
MatchOf(node, bs) ==
  [start_byte |-> node.sb, end_byte |-> node.eb,
   start_row |-> 0, start_col |-> node.sb, end_row |-> 0, end_col |-> node.eb,
   bindings |-> bs]

(***************************************************************************)
(* matcher.zig: pattern tokens                                             *)
(***************************************************************************)
isUpper(c) == c >= 65 /\ c <= 90
isDigit(c) == c >= 48 /\ c <= 57

StartsWithDots(t, from) ==
  Len(t) >= from + 2 /\ t[from] = 46 /\ t[from + 1] = 46 /\ t[from + 2] = 46

isMetavar(t) ==
  /\ Len(t) >= 2
  /\ t[1] = 36
  /\ ~(Len(t) >= 4 /\ StartsWithDots(t, 2))
  /\ \A i \in 2..Len(t) : isUpper(t[i]) \/ t[i] = 95 \/ isDigit(t[i])

metavarName(t) == Tail(t)

isEllipsis(t) == t = T_dots

isEllipsisMetavar(t) == Len(t) >= 5 /\ t[1] = 36 /\ StartsWithDots(t, 2)

(***************************************************************************)
(* matcher.zig: matchNode / matchChildren / matchChildSeq.  Each returns   *)
(* [ok, b]: the verdict and the bindings as the call leaves them.          *)
(***************************************************************************)
RECURSIVE matchNode(_, _, _, _)
RECURSIVE matchChildren(_, _, _, _)
RECURSIVE matchChildSeq(_, _, _, _, _, _, _, _)
RECURSIVE ellipsisSkip(_, _, _, _, _, _, _, _)

matchNode(pattern, source, bs, depth) ==
  IF depth > MAX_DEPTH THEN [ok |-> FALSE, b |-> bs]
  ELSE IF isMetavar(pattern.text)
       THEN bind(bs, metavarName(pattern.text), source.text, source.sb, source.eb)
  ELSE IF isEllipsis(pattern.text) THEN [ok |-> TRUE, b |-> bs]
  ELSE IF pattern.kind = source.kind THEN matchChildren(pattern, source, bs, depth)
  ELSE IF Len(pattern.kids) = 0 /\ Len(source.kids) = 0
       THEN [ok |-> pattern.text = source.text, b |-> bs]
  ELSE IF pattern.kind = K_expression_statement /\ Len(pattern.kids) = 1
       THEN matchNode(pattern.kids[1], source, bs, depth + 1)
  ELSE IF source.kind = K_expression_statement /\ Len(source.kids) = 1
       THEN matchNode(pattern, source.kids[1], bs, depth + 1)
  ELSE [ok |-> FALSE, b |-> bs]

matchChildren(pattern, source, bs, depth) ==
  IF Len(pattern.kids) = 0 THEN [ok |-> TRUE, b |-> bs]
  ELSE matchChildSeq(pattern, 0, Len(pattern.kids), source, 0, Len(source.kids),
                     bs, depth + 1)

\* the `while (skip < src_count)` loop of the ellipsis branch
ellipsisSkip(pattern, pat_idx, pat_count, source, skip, src_count, bs, depth) ==
  IF skip >= src_count THEN [ok |-> FALSE, b |-> bs]
  ELSE LET r == matchChildSeq(pattern, pat_idx + 1, pat_count, source, skip + 1,
                              src_count, bs, depth + 1)
       IN IF r.ok THEN r
          ELSE ellipsisSkip(pattern, pat_idx, pat_count, source, skip + 1,
                            src_count, r.b, depth)

\* a matchChildSeq without `bindings.* = saved`: a failed alignment leaves the
\* bindings it made
matchChildSeq_NoRollback(pattern, pat_idx, pat_count, source, src_idx, src_count, bs, depth) ==
  IF depth > MAX_DEPTH THEN [ok |-> FALSE, b |-> bs]
  ELSE IF pat_idx >= pat_count /\ src_idx >= src_count THEN [ok |-> TRUE, b |-> bs]
  ELSE IF pat_idx >= pat_count THEN [ok |-> FALSE, b |-> bs]
  ELSE
    LET pat_child == pattern.kids[pat_idx + 1]
    IN IF isEllipsis(pat_child.text) \/ isEllipsisMetavar(pat_child.text)
       THEN LET r0 == matchChildSeq(pattern, pat_idx + 1, pat_count, source,
                                    src_idx, src_count, bs, depth + 1)
            IN IF r0.ok THEN r0
               ELSE ellipsisSkip(pattern, pat_idx, pat_count, source, src_idx,
                                 src_count, r0.b, depth)
       ELSE IF src_idx >= src_count THEN [ok |-> FALSE, b |-> bs]
       ELSE
         LET src_child == source.kids[src_idx + 1]
             r1 == matchNode(pat_child, src_child, bs, depth + 1)
             r2 == matchChildSeq(pattern, pat_idx + 1, pat_count, source,
                                 src_idx + 1, src_count, r1.b, depth + 1)
         IN IF r1.ok /\ r2.ok THEN r2
            ELSE [ok |-> FALSE, b |-> IF r1.ok THEN r2.b ELSE r1.b]

matchChildSeq(pattern, pat_idx, pat_count, source, src_idx, src_count, bs, depth) ==
  IF depth > MAX_DEPTH THEN [ok |-> FALSE, b |-> bs]
  ELSE IF pat_idx >= pat_count /\ src_idx >= src_count THEN [ok |-> TRUE, b |-> bs]
  ELSE IF pat_idx >= pat_count THEN [ok |-> FALSE, b |-> bs]
  ELSE
    LET pat_child == pattern.kids[pat_idx + 1]
    IN IF isEllipsis(pat_child.text) \/ isEllipsisMetavar(pat_child.text)
       THEN LET r0 == matchChildSeq(pattern, pat_idx + 1, pat_count, source,
                                    src_idx, src_count, bs, depth + 1)
            IN IF r0.ok THEN r0
               ELSE ellipsisSkip(pattern, pat_idx, pat_count, source, src_idx,
                                 src_count, r0.b, depth)
       ELSE IF src_idx >= src_count THEN [ok |-> FALSE, b |-> bs]
       ELSE
         LET src_child == source.kids[src_idx + 1]
             r1 == matchNode(pat_child, src_child, bs, depth + 1)
             r2 == matchChildSeq(pattern, pat_idx + 1, pat_count, source,
                                 src_idx + 1, src_count, r1.b, depth + 1)
         IN IF r1.ok /\ r2.ok THEN r2
            ELSE [ok |-> FALSE, b |-> bs]

(***************************************************************************)
(* matcher.zig: searchMatches                                              *)
(***************************************************************************)
unwrapProgramRoot(node) ==
  IF node.kind = K_program /\ Len(node.kids) = 1 THEN node.kids[1] ELSE node

RECURSIVE searchMatches(_, _, _, _)
RECURSIVE searchKids(_, _, _, _, _)

\* the `while (i < namedChildCount())` loop of searchMatches
searchKids(pattern_root, source_root, i, matches, depth) ==
  \* matches is the list as the calls on the earlier children have left it
  IF i > Len(source_root.kids) \/ Len(matches) < 0 THEN matches
  ELSE searchKids(pattern_root, source_root, i + 1,
                  searchMatches(pattern_root, source_root.kids[i], matches, depth + 1),
                  depth)

\* a searchMatches that visits the children before the node itself
searchMatches_PostOrder(pattern_root, source_root, matches, depth) ==
  IF depth > MAX_WALK_DEPTH THEN matches
  ELSE
    LET r == matchNode(unwrapProgramRoot(pattern_root), source_root, EmptyBindings, 0)
        below == searchKids(pattern_root, source_root, 1, matches, depth)
    IN IF r.ok /\ ~isDuplicate(below, source_root.sb, source_root.eb)
       THEN MatchListAdd(below, MatchOf(source_root, r.b))
       ELSE below

searchMatches(pattern_root, source_root, matches, depth) ==
  IF depth > MAX_WALK_DEPTH THEN matches
  ELSE
    LET r == matchNode(unwrapProgramRoot(pattern_root), source_root, EmptyBindings, 0)
        here == IF r.ok /\ ~isDuplicate(matches, source_root.sb, source_root.eb)
                THEN MatchListAdd(matches, MatchOf(source_root, r.b))
                ELSE matches
    IN searchKids(pattern_root, source_root, 1, here, depth)

(***************************************************************************)
(* The source of the relational-rule tests:                                *)
(*   try { var r = eval(x); } catch(e) {} var s = eval(y);                 *)
(***************************************************************************)
S_try_text == <<116, 114, 121, 32, 123, 32, 118, 97, 114, 32, 114, 32, 61, 32, 101, 118, 97, 108, 40, 120, 41, 59, 32, 125, 32, 99, 97, 116, 99, 104, 40, 101, 41, 32, 123, 125, 32, 118, 97, 114, 32, 115, 32, 61, 32, 101, 118, 97, 108, 40, 121, 41, 59>>

IsNamed(n) == n.named

TryNode(kind, sb, eb, akids) ==
  [kind |-> kind, text |-> SubSeq(S_try_text, sb + 1, eb), sb |-> sb, eb |-> eb,
   named |-> TRUE, kids |-> SelectSeq(akids, IsNamed), akids |-> akids]

TryTok(text, at) == Tok(text, at)

TryTree ==
  TryNode(K_program, 0, 53, <<
    TryNode(K_try_statement, 0, 36, <<
      TryTok(<<116, 114, 121>>, 0),
      TryNode(K_statement_block, 4, 24, <<
        TryTok(<<123>>, 4),
        TryNode(K_variable_declaration, 6, 22, <<
          TryTok(<<118, 97, 114>>, 6),
          TryNode(K_variable_declarator, 10, 21, <<
            TryNode(K_identifier, 10, 11, <<>>),
            TryTok(<<61>>, 12),
            TryNode(K_call_expression, 14, 21, <<
              TryNode(K_identifier, 14, 18, <<>>),
              TryNode(K_arguments, 18, 21, <<
                TryTok(<<40>>, 18),
                TryNode(K_identifier, 19, 20, <<>>),
                TryTok(<<41>>, 20)>>)>>)>>),
          TryTok(<<59>>, 21)>>),
        TryTok(<<125>>, 23)>>),
      TryNode(K_catch_clause, 25, 36, <<
        TryTok(<<99, 97, 116, 99, 104>>, 25),
        TryTok(<<40>>, 30),
        TryNode(K_identifier, 31, 32, <<>>),
        TryTok(<<41>>, 32),
        TryNode(K_statement_block, 34, 36, <<
          TryTok(<<123>>, 34),
          TryTok(<<125>>, 35)>>)>>)>>),
    TryNode(K_variable_declaration, 37, 53, <<
      TryTok(<<118, 97, 114>>, 37),
      TryNode(K_variable_declarator, 41, 52, <<
        TryNode(K_identifier, 41, 42, <<>>),
        TryTok(<<61>>, 43),
        TryNode(K_call_expression, 45, 52, <<
          TryNode(K_identifier, 45, 49, <<>>),
          TryNode(K_arguments, 49, 52, <<
            TryTok(<<40>>, 49),
            TryNode(K_identifier, 50, 51, <<>>),
            TryTok(<<41>>, 51)>>)>>)>>),
      TryTok(<<59>>, 52)>>)>>)

(***************************************************************************)
(* matcher.zig: range filters on match lists (used by the slot filters)    *)
(***************************************************************************)
isInsideAny(contexts, inner_start, inner_end) ==
  \E i \in 1..Len(contexts) :
    contexts[i].start_byte <= inner_start /\ contexts[i].end_byte >= inner_end

isExactMatch(exclusions, start, end) == isDuplicate(exclusions, start, end)

overlapsAny(list, a_start, a_end) ==
  \E i \in 1..Len(list) : a_start < list[i].end_byte /\ list[i].start_byte < a_end

RECURSIVE AddAll(_, _, _)
\* result.add(m) for the elements of list from position i on
AddAll(result, list, i) ==
  \* result is the list as the earlier adds have left it
  IF i > Len(list) \/ Len(result) < 0 THEN result
  ELSE AddAll(MatchListAdd(result, list[i]), list, i + 1)

InsideOf(contexts, m) == isInsideAny(contexts, m.start_byte, m.end_byte)

filterInside(matches, contexts) ==
  AddAll(EmptyList, SelectSeq(matches, LAMBDA m : InsideOf(contexts, m)), 1)

\* a filterNotInside that tests for the exact range instead of containment
filterNotInside_Exact(matches, contexts) ==
  AddAll(EmptyList,
         SelectSeq(matches, LAMBDA m : ~isExactMatch(contexts, m.start_byte, m.end_byte)),
         1)

filterNotInside(matches, contexts) ==
  AddAll(EmptyList, SelectSeq(matches, LAMBDA m : ~InsideOf(contexts, m)), 1)

filterNot(matches, exclusions) ==
  AddAll(EmptyList,
         SelectSeq(matches, LAMBDA m : ~isExactMatch(exclusions, m.start_byte, m.end_byte)),
         1)

intersect(a, b) ==
  AddAll(EmptyList,
         SelectSeq(a, LAMBDA m : overlapsAny(b, m.start_byte, m.end_byte)), 1)

\* a union that adds every element of b
unionMatches_NoDedup(a, b) == AddAll(AddAll(EmptyList, a, 1), b, 1)

unionMatches(a, b) ==
  LET RECURSIVE go(_, _)
      go(result, i) ==
        IF i > Len(b) \/ Len(result) < 0 THEN result
        ELSE go(IF ~isDuplicate(result, b[i].start_byte, b[i].end_byte)
                THEN MatchListAdd(result, b[i]) ELSE result, i + 1)
  IN go(AddAll(EmptyList, a, 1), 1)

(***************************************************************************)
(* matcher.zig: kind, range, sibling and nth-child collection              *)
(***************************************************************************)
RECURSIVE collectByKind(_, _, _, _)
RECURSIVE collectByKindKids(_, _, _, _, _)

collectByKindKids(source_root, kind, i, matches, depth) ==
  \* matches is the list as the calls on the earlier children have left it
  IF i > Len(source_root.kids) \/ Len(matches) < 0 THEN matches
  ELSE collectByKindKids(source_root, kind, i + 1,
         collectByKind(source_root.kids[i], kind, matches, depth + 1), depth)

collectByKind(source_root, kind, matches, depth) ==
  IF depth > MAX_WALK_DEPTH THEN matches
  ELSE
    LET here == IF source_root.kind = kind
                   /\ ~isDuplicate(matches, source_root.sb, source_root.eb)
                THEN MatchListAdd(matches, MatchOf(source_root, EmptyBindings))
                ELSE matches
    IN collectByKindKids(source_root, kind, 1, here, depth)

RECURSIVE collectByKindAll(_, _, _, _)
RECURSIVE collectByKindAllKids(_, _, _, _, _)

collectByKindAllKids(source_root, kind, i, matches, depth) ==
  \* matches is the list as the calls on the earlier children have left it
  IF i > Len(source_root.akids) \/ Len(matches) < 0 THEN matches
  ELSE collectByKindAllKids(source_root, kind, i + 1,
         collectByKindAll(source_root.akids[i], kind, matches, depth + 1), depth)

collectByKindAll(source_root, kind, matches, depth) ==
  IF depth > MAX_WALK_DEPTH THEN matches
  ELSE
    LET here == IF source_root.kind = kind
                   /\ ~isDuplicate(matches, source_root.sb, source_root.eb)
                THEN MatchListAdd(matches, MatchOf(source_root, EmptyBindings))
                ELSE matches
    IN collectByKindAllKids(source_root, kind, 1, here, depth)

RECURSIVE searchMatchesInRange(_, _, _, _, _, _)
RECURSIVE searchInRangeKids(_, _, _, _, _, _, _)

searchInRangeKids(pattern_root, source_root, i, matches, depth, range_start, range_end) ==
  \* matches is the list as the calls on the earlier children have left it
  IF i > Len(source_root.kids) \/ Len(matches) < 0 THEN matches
  ELSE searchInRangeKids(pattern_root, source_root, i + 1,
         searchMatchesInRange(pattern_root, source_root.kids[i], matches, depth + 1,
                              range_start, range_end),
         depth, range_start, range_end)

searchMatchesInRange(pattern_root, source_root, matches, depth, range_start, range_end) ==
  IF depth > MAX_WALK_DEPTH THEN matches
  ELSE IF source_root.eb <= range_start \/ source_root.sb >= range_end THEN matches
  ELSE
    LET r == matchNode(unwrapProgramRoot(pattern_root), source_root, EmptyBindings, 0)
        here == IF /\ source_root.sb >= range_start /\ source_root.eb <= range_end
                   /\ r.ok
                   /\ ~isDuplicate(matches, source_root.sb, source_root.eb)
                THEN MatchListAdd(matches, MatchOf(source_root, r.b))
                ELSE matches
    IN searchInRangeKids(pattern_root, source_root, 1, here, depth, range_start, range_end)

\* A node is addressed by its path: the child indices (in akids) from the root.
NoPath == <<0>>

RECURSIVE NodeAtPath(_, _)
NodeAtPath(root, path) ==
  IF path = <<>> THEN root ELSE NodeAtPath(root.akids[Head(path)], Tail(path))

\* akids positions of the named children, in order
NamedPositions(node) ==
  SelectSeq([i \in 1..Len(node.akids) |-> i], LAMBDA i : node.akids[i].named)

RECURSIVE findNodeAtRange(_, _, _, _, _)
RECURSIVE findNodeAtRangeKids(_, _, _, _, _, _)

findNodeAtRangeKids(node, path, i, target_start, target_end, depth) ==
  IF i > Len(NamedPositions(node)) THEN NoPath
  ELSE
    LET pos == NamedPositions(node)[i]
        child == node.akids[pos]
        sub == IF child.sb <= target_start /\ child.eb >= target_end
               THEN findNodeAtRange(child, Append(path, pos), target_start, target_end,
                                    depth + 1)
               ELSE NoPath
    IN IF sub # NoPath THEN sub
       ELSE findNodeAtRangeKids(node, path, i + 1, target_start, target_end, depth)

\* the path of the node found, or NoPath
findNodeAtRange(node, path, target_start, target_end, depth) ==
  IF depth > MAX_WALK_DEPTH THEN NoPath
  ELSE IF node.sb = target_start /\ node.eb = target_end THEN path
  ELSE findNodeAtRangeKids(node, path, 1, target_start, target_end, depth)

Front(path) == SubSeq(path, 1, Len(path) - 1)
Last(path) == path[Len(path)]

\* ts.Node.prevNamedSibling / nextNamedSibling, as paths
prevNamedSibling(root, path) ==
  IF path = <<>> \/ path = NoPath THEN NoPath
  ELSE LET par == NodeAtPath(root, Front(path))
           before == {j \in 1..(Last(path) - 1) : par.akids[j].named}
       IN IF before = {} THEN NoPath
          ELSE Append(Front(path), CHOOSE j \in before : \A k \in before : k <= j)

nextNamedSibling(root, path) ==
  IF path = <<>> \/ path = NoPath THEN NoPath
  ELSE LET par == NodeAtPath(root, Front(path))
           after == {j \in (Last(path) + 1)..Len(par.akids) : par.akids[j].named}
       IN IF after = {} THEN NoPath
          ELSE Append(Front(path), CHOOSE j \in after : \A k \in after : j <= k)

RECURSIVE siblingWalk(_, _, _, _)
\* the `while (current.prevNamedSibling()) |sib|` loop (forward when fwd)
siblingWalk(root, current, fwd, matches) ==
  LET sib == IF fwd THEN nextNamedSibling(root, current)
             ELSE prevNamedSibling(root, current)
  IN IF sib = NoPath THEN matches
     ELSE siblingWalk(root, sib, fwd,
                      MatchListAdd(matches, MatchOf(NodeAtPath(root, sib), EmptyBindings)))

collectPrecedingSiblings(source_root, node_start, node_end, matches) ==
  LET target == findNodeAtRange(source_root, <<>>, node_start, node_end, 0)
  IN IF target = NoPath THEN matches
     ELSE siblingWalk(source_root, target, FALSE, matches)

collectFollowingSiblings(source_root, node_start, node_end, matches) ==
  LET target == findNodeAtRange(source_root, <<>>, node_start, node_end, 0)
  IN IF target = NoPath THEN matches
     ELSE siblingWalk(source_root, target, TRUE, matches)

RECURSIVE collectByNthChild(_, _, _, _, _, _)
RECURSIVE collectByNthChildKids(_, _, _, _, _)

collectByNthChildKids(node, index, i, matches, depth) ==
  IF i > Len(node.kids) THEN matches
  ELSE collectByNthChildKids(node, index, i + 1,
         collectByNthChild(node.kids[i], TRUE, node, index, matches, depth + 1), depth)

\* hasParent/par: the node's parent() when it has one
collectByNthChild(node, hasParent, par, index, matches, depth) ==
  IF depth > MAX_WALK_DEPTH THEN matches
  ELSE
    LET isNth == /\ hasParent
                 /\ index < Len(par.kids)
                 /\ par.kids[index + 1].sb = node.sb
                 /\ par.kids[index + 1].eb = node.eb
        here == IF isNth THEN MatchListAdd(matches, MatchOf(node, EmptyBindings))
                ELSE matches
    IN collectByNthChildKids(node, index, 1, here, depth)

(***************************************************************************)
(* Rule bytecode: opcodes and the encoder of the JS side (encoder.ts)      *)
(***************************************************************************)
OP_PATTERN == 1
OP_KIND == 2
OP_REGEX == 3
OP_NTH_CHILD == 4
OP_ALL == 16
OP_ANY == 17
OP_NOT == 18
OP_INSIDE == 19
OP_HAS == 20
OP_FOLLOWS == 21
OP_PRECEDES == 22
OP_MATCHES == 23
OP_FIX == 32
OP_CONSTRAINT == 48
OP_TRANSFORM == 49
OP_STOPBY_END == 64
OP_STOPBY_NEIGHBOR == 65
OP_STOPBY_RULE == 66
OP_RULE == 80
OP_RULESET == 255

writeU8(v) == <<v % 256>>
writeU16(v) == <<v % 256, (v \div 256) % 256>>
writeU32(v) == <<v % 256, (v \div 256) % 256, (v \div 65536) % 256, (v \div 16777216) % 256>>
writeString(s) == writeU16(Len(s)) \o s

\* Rule nodes of a RuleDefinition (types.ts), one record shape per variant.
PatternRule(s) == [op |-> "pattern", str |-> s]
KindRule(s) == [op |-> "kind", str |-> s]
RegexRule(s) == [op |-> "regex", str |-> s]
NthChildRule(n) == [op |-> "nthChild", n |-> n]
AllRule(kids) == [op |-> "all", kids |-> kids]
AnyRule(kids) == [op |-> "any", kids |-> kids]
NotRule(kid) == [op |-> "not", kid |-> kid]
StopByNeighbor == [op |-> "neighbor"]
StopByEnd == [op |-> "end"]
InsideRule(kid) == [op |-> "inside", stopBy |-> StopByNeighbor, kid |-> kid]
HasRule(kid) == [op |-> "has", stopBy |-> StopByNeighbor, kid |-> kid]
FollowsRule(kid) == [op |-> "follows", stopBy |-> StopByNeighbor, kid |-> kid]
PrecedesRule(kid) == [op |-> "precedes", stopBy |-> StopByNeighbor, kid |-> kid]
MatchesRule(id) == [op |-> "matches", id |-> id]

RelationalOpcode(op) ==
  CASE op = "inside" -> OP_INSIDE
    [] op = "has" -> OP_HAS
    [] op = "follows" -> OP_FOLLOWS
    [] OTHER -> OP_PRECEDES

\* ruleIndexMap.get(id) ?? 0: the last rule with that id wins
ruleIndexMap(rules, id) ==
  LET at == {i \in 1..Len(rules) : rules[i].id = id}
  IN IF at = {} THEN 0 ELSE (CHOOSE i \in at : \A j \in at : j <= i) - 1

RECURSIVE encodeRuleNode(_, _)
RECURSIVE encodeRuleNodes(_, _, _)

encodeRuleNodes(nodes, i, rules) ==
  IF i > Len(nodes) THEN <<>>
  ELSE encodeRuleNode(nodes[i], rules) \o encodeRuleNodes(nodes, i + 1, rules)

encodeStopBy(stopBy, rules) ==
  IF stopBy.op = "neighbor" THEN writeU8(OP_STOPBY_NEIGHBOR)
  ELSE IF stopBy.op = "end" THEN writeU8(OP_STOPBY_END)
  ELSE writeU8(OP_STOPBY_RULE) \o encodeRuleNode(stopBy, rules)

encodeRuleNode(node, rules) ==
  CASE node.op = "pattern" -> writeU8(OP_PATTERN) \o writeString(node.str)
    [] node.op = "kind" -> writeU8(OP_KIND) \o writeString(node.str)
    [] node.op = "regex" -> writeU8(OP_REGEX) \o writeString(node.str)
    [] node.op = "nthChild" -> writeU8(OP_NTH_CHILD) \o writeU32(node.n)
    [] node.op = "all" ->
         writeU8(OP_ALL) \o writeU16(Len(node.kids)) \o encodeRuleNodes(node.kids, 1, rules)
    [] node.op = "any" ->
         writeU8(OP_ANY) \o writeU16(Len(node.kids)) \o encodeRuleNodes(node.kids, 1, rules)
    [] node.op = "not" -> writeU8(OP_NOT) \o encodeRuleNode(node.kid, rules)
    [] node.op \in {"inside", "has", "follows", "precedes"} ->
         writeU8(RelationalOpcode(node.op)) \o encodeStopBy(node.stopBy, rules)
           \o encodeRuleNode(node.kid, rules)
    [] node.op = "matches" -> writeU8(OP_MATCHES) \o writeU16(ruleIndexMap(rules, node.id))
    [] OTHER -> <<>>

\* constraint entries [name, regex, notRegex]: an empty string is an absent key
RECURSIVE constraintOps(_, _)
constraintOps(entries, i) ==
  IF i > Len(entries) THEN <<>>
  ELSE (IF entries[i].regex # <<>>
        THEN <<[metavar |-> entries[i].name, type |-> 0, pattern |-> entries[i].regex]>>
        ELSE <<>>)
       \o (IF entries[i].notRegex # <<>>
           THEN <<[metavar |-> entries[i].name, type |-> 1, pattern |-> entries[i].notRegex]>>
           ELSE <<>>)
       \o constraintOps(entries, i + 1)

RECURSIVE encodeConstraints(_, _)
encodeConstraints(ops, i) ==
  IF i > Len(ops) THEN <<>>
  ELSE writeU8(OP_CONSTRAINT) \o writeString(ops[i].metavar) \o writeU8(ops[i].type)
         \o writeString(ops[i].pattern) \o encodeConstraints(ops, i + 1)

\* transform entries [source, convert]; the substring and replace forms are not drawn
RECURSIVE encodeTransforms(_, _)
encodeTransforms(entries, i) ==
  IF i > Len(entries) THEN <<>>
  ELSE writeU8(OP_TRANSFORM) \o writeString(entries[i].source)
         \o (IF entries[i].convert # <<>>
             THEN writeU8(2) \o writeString(entries[i].convert)
             ELSE writeU8(0) \o writeString(<<>>))
         \o encodeTransforms(entries, i + 1)

SEVERITY_MAP(severity) ==
  CASE severity = "error" -> 0
    [] severity = "warning" -> 1
    [] severity = "info" -> 2
    [] severity = "hint" -> 3
    [] OTHER -> 0

LANG_MAP(language) ==
  CASE language = "javascript" -> 1
    [] language = "typescript" -> 2
    [] language = "tsx" -> 3
    [] OTHER -> 0

encodeRule(rule, rules) ==
  writeU8(OP_RULE) \o writeString(rule.id) \o writeU8(SEVERITY_MAP(rule.severity))
    \o writeString(rule.message) \o writeU8(LANG_MAP(rule.language))
    \o writeU16(Len(constraintOps(rule.constraints, 1)))
    \o encodeConstraints(constraintOps(rule.constraints, 1), 1)
    \o writeU16(Len(rule.transform)) \o encodeTransforms(rule.transform, 1)
    \o encodeRuleNode(rule.rule, rules)

RECURSIVE encodeRulesFrom(_, _)
encodeRulesFrom(rules, i) ==
  IF i > Len(rules) THEN <<>>
  ELSE encodeRule(rules[i], rules) \o encodeRulesFrom(rules, i + 1)

encodeRules(rules) ==
  writeU8(OP_RULESET) \o writeU16(1) \o writeU16(Len(rules)) \o encodeRulesFrom(rules, 1)

(***************************************************************************)
(* The vendored regex engine (vendor/regex), for the patterns the model    *)
(* draws: an optional leading ^ followed by literal bytes.  A pattern with *)
(* an unclosed group does not compile.                                     *)
(***************************************************************************)
CountByte(s, c) == Cardinality({i \in 1..Len(s) : s[i] = c})

RegexCompiles(pattern) == CountByte(pattern, 40) = CountByte(pattern, 41)

IsPrefixAt(lit, text, at) ==
  /\ at + Len(lit) - 1 <= Len(text)
  /\ \A i \in 1..Len(lit) : text[at + i - 1] = lit[i]

\* Regex.find(text) # null
RegexFind(pattern, text) ==
  IF pattern # <<>> /\ pattern[1] = 94
  THEN IsPrefixAt(Tail(pattern), text, 1)
  ELSE \E at \in 1..(Len(text) + 1) : IsPrefixAt(pattern, text, at)

(***************************************************************************)
(* rule_engine.zig: capacities, decoded structures and the decoder         *)
(***************************************************************************)
MAX_RULES == 32
MAX_RULE_NODES == 128
MAX_CONSTRAINTS == 16
MAX_TRANSFORMS == 16
MAX_CHILDREN == 64

\* RuleNode{} with its field defaults
DefaultRuleNode ==
  [tag |-> "pattern", str_offset |-> 0, str_len |-> 0, index |-> 0,
   children_start |-> 0, children_count |-> 0, child |-> 0,
   stop_by |-> "neighbor", stop_by_rule |-> 0, ref_index |-> 0, compiled_handle |-> 0]

NullRegex == [null |-> TRUE, pattern |-> <<>>]

\* Rule{}, Constraint{} and Transform{} with their field defaults
DefaultRule ==
  [id_offset |-> 0, id_len |-> 0, severity |-> 0, message_offset |-> 0, message_len |-> 0,
   language |-> 1, root_node |-> 0, fix_offset |-> 0, fix_len |-> 0,
   constraints_start |-> 0, constraints_count |-> 0, transforms_start |-> 0,
   transforms_count |-> 0]

DefaultConstraint ==
  [metavar_offset |-> 0, metavar_len |-> 0, constraint_type |-> 0, pattern_offset |-> 0,
   pattern_len |-> 0, compiled_regex |-> NullRegex]

DefaultTransform ==
  [source_offset |-> 0, source_len |-> 0, op |-> 0, arg_offset |-> 0, arg_len |-> 0]

\* Decoder state: the cursor, the ruleset under construction, the shared
\* children pool, the value of the last read (val) and the Rule, Constraint and
\* Transform being filled in.  A failed read (`orelse return null`) clears ok,
\* and every later step of the decoder passes a failed state on unchanged.
DecoderInit(pool) ==
  [ok |-> TRUE, pos |-> 0, val |-> 0, nodes |-> <<>>, constraints |-> <<>>,
   transforms |-> <<>>, rules |-> <<>>, pool |-> pool, pool_count |-> 0, overrun |-> FALSE,
   rule |-> DefaultRule, constraint |-> DefaultConstraint, transform |-> DefaultTransform]

Fail(d) == [d EXCEPT !.ok = FALSE]

readU8(data, d) ==
  IF ~d.ok THEN d
  ELSE IF d.pos >= Len(data) THEN Fail(d)
  ELSE [d EXCEPT !.val = data[d.pos + 1], !.pos = @ + 1]

readU16(data, d) ==
  IF ~d.ok THEN d
  ELSE IF d.pos + 2 > Len(data) THEN Fail(d)
  ELSE [d EXCEPT !.val = data[d.pos + 1] + 256 * data[d.pos + 2], !.pos = @ + 2]

readU32(data, d) ==
  IF ~d.ok THEN d
  ELSE IF d.pos + 4 > Len(data) THEN Fail(d)
  ELSE [d EXCEPT !.val = data[d.pos + 1] + 256 * data[d.pos + 2]
                           + 65536 * data[d.pos + 3] + 16777216 * data[d.pos + 4],
                 !.pos = @ + 4]

\* the string body after its length has been read into len.val
readStringBody(data, len) ==
  IF ~len.ok THEN len
  ELSE IF len.pos + len.val > Len(data) THEN Fail(len)
  ELSE [len EXCEPT !.val = [offset |-> len.pos, len |-> len.val], !.pos = @ + len.val]

\* val = [offset, len] of the string just read
readString(data, d) == readStringBody(data, readU16(data, d))

getString(data, offset, len) ==
  IF offset + len > Len(data) THEN <<>> ELSE SubSeq(data, offset + 1, offset + len)

\* rs.nodes[node_idx] = node; return node_idx
StoreNode(d, node_idx, node) ==
  IF ~d.ok THEN d ELSE [d EXCEPT !.nodes[node_idx + 1] = node, !.val = node_idx]

RelationalTag(op) ==
  CASE op = OP_INSIDE -> "inside"
    [] op = OP_HAS -> "has"
    [] op = OP_FOLLOWS -> "follows"
    [] OTHER -> "precedes"

RECURSIVE decodeRuleNode(_, _)
RECURSIVE decodeRuleNodeOp(_, _, _)
RECURSIVE decodeChildren(_, _, _, _)
RECURSIVE decodeChild(_, _, _, _)

\* the `while (ci < count)` loop of an all/any node
decodeChildren(data, d, ci, count) ==
  IF ~d.ok \/ ci >= count THEN d
  ELSE IF d.pool_count >= MAX_CHILDREN THEN Fail(d)
  ELSE decodeChild(data, decodeRuleNode(data, d), ci, count)

\* children_pool[children_pool_count] = child_idx; children_pool_count += 1
decodeChild(data, d1, ci, count) ==
  IF ~d1.ok THEN d1
  ELSE IF d1.pool_count >= MAX_CHILDREN
  THEN \* children_pool[children_pool_count] lies past the end of the array
       decodeChildren(data, [d1 EXCEPT !.overrun = TRUE, !.pool_count = @ + 1], ci + 1, count)
  ELSE decodeChildren(data,
                      [d1 EXCEPT !.pool[d1.pool_count + 1] = d1.val, !.pool_count = @ + 1],
                      ci + 1, count)

\* val = the index of the decoded node
decodeRuleNode(data, d0) ==
  IF ~d0.ok THEN d0
  ELSE IF Len(d0.nodes) >= MAX_RULE_NODES THEN Fail(d0)
  ELSE decodeRuleNodeOp(data, readU8(data, [d0 EXCEPT !.nodes = Append(@, DefaultRuleNode)]),
                        Len(d0.nodes))

\* the `switch (op)` of decodeRuleNode, d1.val being the opcode read
decodeRuleNodeOp(data, d1, node_idx) ==
  LET op == d1.val
      tag == IF op = OP_PATTERN THEN "pattern" ELSE IF op = OP_KIND THEN "kind" ELSE "regex"
      storeString(s) ==
        StoreNode(s, node_idx,
                  [DefaultRuleNode EXCEPT !.tag = tag, !.str_offset = s.val.offset,
                                          !.str_len = s.val.len])
      storeIndex(n) ==
        StoreNode(n, node_idx, [DefaultRuleNode EXCEPT !.tag = "nth_child", !.index = n.val])
      storeChildren(kids, c) ==
        StoreNode(kids, node_idx,
                  [DefaultRuleNode EXCEPT !.tag = IF op = OP_ALL THEN "all" ELSE "any",
                                          !.children_start = c.pool_count,
                                          !.children_count = c.val])
      children(c) == storeChildren(decodeChildren(data, c, 0, c.val), c)
      storeNot(k) ==
        StoreNode(k, node_idx, [DefaultRuleNode EXCEPT !.tag = "op_not", !.child = k.val])
      storeRelational(k, sb, stop) ==
        StoreNode(k, node_idx,
                  [DefaultRuleNode EXCEPT
                     !.tag = RelationalTag(op),
                     !.stop_by = IF sb.val = OP_STOPBY_END THEN "end"
                                 ELSE IF sb.val = OP_STOPBY_RULE THEN "rule" ELSE "neighbor",
                     !.stop_by_rule = IF sb.val = OP_STOPBY_RULE THEN stop.val ELSE 0,
                     !.child = k.val])
      relationalChild(stop, sb) == storeRelational(decodeRuleNode(data, stop), sb, stop)
      relational(sb) ==
        relationalChild(IF ~sb.ok THEN sb
                        ELSE IF sb.val = OP_STOPBY_RULE THEN decodeRuleNode(data, sb)
                        ELSE IF sb.val \in {OP_STOPBY_END, OP_STOPBY_NEIGHBOR} THEN sb
                        ELSE [sb EXCEPT !.pos = @ - 1],
                        sb)
      storeRef(r) ==
        StoreNode(r, node_idx, [DefaultRuleNode EXCEPT !.tag = "matches", !.ref_index = r.val])
  IN
  IF ~d1.ok THEN d1
  ELSE IF op \in {OP_PATTERN, OP_KIND, OP_REGEX} THEN storeString(readString(data, d1))
  ELSE IF op = OP_NTH_CHILD THEN storeIndex(readU32(data, d1))
  ELSE IF op \in {OP_ALL, OP_ANY} THEN children(readU16(data, d1))
  ELSE IF op = OP_NOT THEN storeNot(decodeRuleNode(data, d1))
  ELSE IF op \in {OP_INSIDE, OP_HAS, OP_FOLLOWS, OP_PRECEDES} THEN relational(readU8(data, d1))
  ELSE IF op = OP_MATCHES THEN storeRef(readU16(data, d1))
  ELSE Fail(d1)

RECURSIVE decodeConstraints(_, _, _, _)
\* the constraint loop of decodeRule; a regex that does not compile leaves the loop
decodeConstraints(data, d, ci, constraint_count) ==
  LET expectOp(x) == IF x.ok /\ x.val # OP_CONSTRAINT THEN Fail(x) ELSE x
      setName(x) ==
        IF ~x.ok THEN x
        ELSE [x EXCEPT !.constraint = [DefaultConstraint EXCEPT !.metavar_offset = x.val.offset,
                                                                !.metavar_len = x.val.len]]
      setType(x) == IF ~x.ok THEN x ELSE [x EXCEPT !.constraint.constraint_type = x.val]
      setPattern(x) ==
        IF ~x.ok THEN x
        ELSE [x EXCEPT !.constraint.pattern_offset = x.val.offset,
                       !.constraint.pattern_len = x.val.len,
                       !.constraint.compiled_regex =
                          [null |-> FALSE,
                           pattern |-> getString(data, x.val.offset, x.val.len)]]
      record(x) ==
        IF ~x.ok THEN x
        ELSE IF ~RegexCompiles(x.constraint.compiled_regex.pattern) THEN x
        ELSE decodeConstraints(data, [x EXCEPT !.constraints = Append(@, x.constraint)],
                               ci + 1, constraint_count)
      c_op == expectOp(readU8(data, d))
      name == setName(readString(data, c_op))
      ctype == setType(readU8(data, name))
      pat == setPattern(readString(data, ctype))
  IN IF ~d.ok \/ ci >= constraint_count THEN d
     ELSE IF Len(d.constraints) >= MAX_CONSTRAINTS THEN Fail(d)
     ELSE record(pat)

RECURSIVE decodeTransforms(_, _, _, _)
decodeTransforms(data, d, ti, transform_count) ==
  LET expectOp(x) == IF x.ok /\ x.val # OP_TRANSFORM THEN Fail(x) ELSE x
      setSource(x) ==
        IF ~x.ok THEN x
        ELSE [x EXCEPT !.transform = [DefaultTransform EXCEPT !.source_offset = x.val.offset,
                                                              !.source_len = x.val.len]]
      setOp(x) == IF ~x.ok THEN x ELSE [x EXCEPT !.transform.op = x.val]
      setArg(x) ==
        IF ~x.ok THEN x
        ELSE [x EXCEPT !.transform.arg_offset = x.val.offset, !.transform.arg_len = x.val.len]
      record(x) ==
        IF ~x.ok THEN x
        ELSE decodeTransforms(data, [x EXCEPT !.transforms = Append(@, x.transform)],
                              ti + 1, transform_count)
      t_op == expectOp(readU8(data, d))
      src == setSource(readString(data, t_op))
      op == setOp(readU8(data, src))
      arg == setArg(readString(data, op))
  IN IF ~d.ok \/ ti >= transform_count THEN d
     ELSE IF Len(d.transforms) >= MAX_TRANSFORMS THEN Fail(d)
     ELSE record(arg)

\* val = the decoded Rule
decodeRule(data, d) ==
  LET expectOp(x) == IF x.ok /\ x.val # OP_RULE THEN Fail(x) ELSE x
      setId(x) ==
        IF ~x.ok THEN x
        ELSE [x EXCEPT !.rule = [DefaultRule EXCEPT !.id_offset = x.val.offset,
                                                    !.id_len = x.val.len]]
      setSeverity(x) == IF ~x.ok THEN x ELSE [x EXCEPT !.rule.severity = x.val]
      setMessage(x) ==
        IF ~x.ok THEN x
        ELSE [x EXCEPT !.rule.message_offset = x.val.offset, !.rule.message_len = x.val.len]
      setLanguage(x) == IF ~x.ok THEN x ELSE [x EXCEPT !.rule.language = x.val]
      constraints(x) ==
        IF ~x.ok THEN x
        ELSE decodeConstraints(data,
                               [x EXCEPT !.rule.constraints_start = Len(x.constraints),
                                         !.rule.constraints_count = x.val],
                               0, x.val)
      transforms(x) ==
        IF ~x.ok THEN x
        ELSE decodeTransforms(data,
                              [x EXCEPT !.rule.transforms_start = Len(x.transforms),
                                        !.rule.transforms_count = x.val],
                              0, x.val)
      setFix(x) ==
        IF ~x.ok THEN x
        ELSE [x EXCEPT !.rule.fix_offset = x.val.offset, !.rule.fix_len = x.val.len]
      fixOrBody(x) ==
        IF ~x.ok THEN x
        ELSE IF x.val = OP_FIX THEN setFix(readString(data, x))
        ELSE [x EXCEPT !.pos = @ - 1]
      setRoot(x) == IF ~x.ok THEN x ELSE [x EXCEPT !.val = [x.rule EXCEPT !.root_node = x.val]]
      op == expectOp(readU8(data, d))
      id == setId(readString(data, op))
      severity == setSeverity(readU8(data, id))
      msg == setMessage(readString(data, severity))
      language == setLanguage(readU8(data, msg))
      cs == constraints(readU16(data, language))
      ts == transforms(readU16(data, cs))
      fix == fixOrBody(readU8(data, ts))
  IN setRoot(decodeRuleNode(data, fix))

RECURSIVE decodeRules(_, _, _, _)
RECURSIVE decodeRulesNext(_, _, _, _)
decodeRules(data, d, ri, rule_count) ==
  IF ~d.ok \/ ri >= rule_count THEN d
  ELSE IF ri >= MAX_RULES THEN Fail(d)
  ELSE decodeRulesNext(data, decodeRule(data, d), ri, rule_count)

\* rs.rules[ri] = the rule decoded; rs.rule_count += 1
decodeRulesNext(data, r, ri, rule_count) ==
  IF ~r.ok THEN r
  ELSE decodeRules(data, [r EXCEPT !.rules = Append(@, r.val)], ri + 1, rule_count)

\* the rule loop of decode, entered with rule_count.val rules to read
decodeBody(bytecode, rule_count) == decodeRules(bytecode, rule_count, 0, rule_count.val)

\* decode(bytecode) run with the children pool as it stands; the result carries
\* ok, the ruleset tables and the pool as decode leaves it (also on failure).
decode(bytecode, pool) ==
  LET expectHeader(x) == IF x.ok /\ x.val # OP_RULESET THEN Fail(x) ELSE x
      header == expectHeader(readU8(bytecode, DecoderInit(pool)))
      version == readU16(bytecode, header)
  IN decodeBody(bytecode, readU16(bytecode, version))

\* the CompiledRuleset value of a successful decode
RulesetOf(bytecode, d) ==
  [rules |-> d.rules, nodes |-> d.nodes, constraints |-> d.constraints,
   transforms |-> d.transforms, bytecode |-> bytecode]

(***************************************************************************)
(* rule_engine.zig: in-place filters and the evaluator.  The three static  *)
(* scratch lists are threaded as a record S = [ct, rt, mt]                 *)
(* (eval_child_temp, eval_relational_temp, eval_merge_temp); an output     *)
(* pointer is the name of the list it points to.                           *)
(***************************************************************************)
ListAt(S, out) == IF out = "ct" THEN S.ct ELSE IF out = "rt" THEN S.rt ELSE S.mt

SetList(S, out, list) ==
  IF out = "ct" THEN [S EXCEPT !.ct = list]
  ELSE IF out = "rt" THEN [S EXCEPT !.rt = list]
  ELSE [S EXCEPT !.mt = list]

isRelationalTag(tag) == tag \in {"inside", "has", "follows", "precedes", "op_not"}

predInside(m, ctx) == ctx.start_byte <= m.start_byte /\ ctx.end_byte >= m.end_byte
predHas(m, sub) == m.start_byte <= sub.start_byte /\ m.end_byte >= sub.end_byte
predExact(m, ex) == m.start_byte = ex.start_byte /\ m.end_byte = ex.end_byte
predFollows(m, ref_m) == ref_m.end_byte <= m.start_byte
predPrecedes(m, ref_m) == ref_m.start_byte >= m.end_byte
predOverlaps(m, ref_m) == m.start_byte < ref_m.end_byte /\ ref_m.start_byte < m.end_byte

\* the comptime predicate parameter of filterGeneric, by name
predFn(predName, m, ref_m) ==
  CASE predName = "inside" -> predInside(m, ref_m)
    [] predName = "has" -> predHas(m, ref_m)
    [] predName = "exact" -> predExact(m, ref_m)
    [] predName = "follows" -> predFollows(m, ref_m)
    [] predName = "precedes" -> predPrecedes(m, ref_m)
    [] OTHER -> predOverlaps(m, ref_m)

RECURSIVE filterLoop(_, _, _, _, _, _, _, _)
\* the loop of filterGeneric over out.items[0..count]; when refs is the list
\* being filtered (aliased) the predicate reads the partly compacted items
filterLoop(items, count, i, keep, refs, aliased, predName, keep_on_match) ==
  IF i > count THEN SubSeq(items, 1, keep)
  ELSE
    LET m == items[i]
        r == IF aliased THEN items ELSE refs
        rcount == IF aliased THEN count ELSE Len(refs)
        matched == \E j \in 1..rcount : predFn(predName, m, r[j])
    IN IF matched = keep_on_match
       THEN filterLoop([items EXCEPT ![keep + 1] = m], count, i + 1, keep + 1, refs, aliased,
                       predName, keep_on_match)
       ELSE filterLoop(items, count, i + 1, keep, refs, aliased, predName, keep_on_match)

filterGeneric(out, refs, aliased, predName, keep_on_match) ==
  filterLoop(out, Len(out), 1, 0, refs, aliased, predName, keep_on_match)

intersectInPlace(out, other, aliased) == filterGeneric(out, other, aliased, "overlaps", TRUE)

RECURSIVE unionInPlaceFrom(_, _, _)
unionInPlaceFrom(out, other, i) ==
  IF i > Len(other) \/ Len(out) < 0 THEN out
  ELSE unionInPlaceFrom(IF \E j \in 1..Len(out) : predExact(out[j], other[i])
                        THEN out ELSE MatchListAdd(out, other[i]),
                        other, i + 1)

unionInPlace(out, other) == unionInPlaceFrom(out, other, 1)

applyRelationalFilter(tag, out, refs, aliased, negate) ==
  IF negate THEN
    CASE tag = "inside" -> filterGeneric(out, refs, aliased, "inside", FALSE)
      [] tag = "has" -> filterGeneric(out, refs, aliased, "has", FALSE)
      [] tag = "follows" -> filterGeneric(out, refs, aliased, "follows", FALSE)
      [] tag = "precedes" -> filterGeneric(out, refs, aliased, "precedes", FALSE)
      [] OTHER -> filterGeneric(out, refs, aliased, "exact", FALSE)
  ELSE
    CASE tag = "inside" -> filterGeneric(out, refs, aliased, "inside", TRUE)
      [] tag = "has" -> filterGeneric(out, refs, aliased, "has", TRUE)
      [] tag = "follows" -> filterGeneric(out, refs, aliased, "follows", TRUE)
      [] tag = "precedes" -> filterGeneric(out, refs, aliased, "precedes", TRUE)
      [] OTHER -> out

\* matcher.addMatchFromNode
addMatchFromNode(node, matches) == MatchListAdd(matches, MatchOf(node, EmptyBindings))

RECURSIVE collectByRegex(_, _, _, _)
RECURSIVE collectByRegexKids(_, _, _, _, _)

collectByRegexKids(source_root, compiled, i, matches, depth) ==
  \* matches is the list as the calls on the earlier children have left it
  IF i > Len(source_root.akids) \/ Len(matches) < 0 THEN matches
  ELSE collectByRegexKids(source_root, compiled, i + 1,
         collectByRegex(source_root.akids[i], compiled, matches, depth + 1), depth)

collectByRegex(source_root, compiled, matches, depth) ==
  IF depth > MAX_WALK_DEPTH THEN matches
  ELSE
    LET here == IF Len(source_root.akids) = 0 /\ RegexFind(compiled, source_root.text)
                THEN addMatchFromNode(source_root, matches)
                ELSE matches
    IN collectByRegexKids(source_root, compiled, 1, here, depth)

\* rs.nodes[idx]; an index past node_count reads an entry decode never wrote
\* (the array starts undefined): all-zero bytes, or any other tag
RuleNodeAt(rs, idx, undef) ==
  IF idx < Len(rs.nodes) THEN rs.nodes[idx + 1]
  ELSE IF undef = "zero" THEN DefaultRuleNode
  ELSE [DefaultRuleNode EXCEPT !.tag = "op_not"]

PoolAt(pool, i) == IF i < MAX_CHILDREN THEN pool[i + 1] ELSE 0

(***************************************************************************)
(* The tree-sitter parser (external), by its output on the texts drawn.    *)
(***************************************************************************)
P_evalX == CallTree(T_eval, <<T_X>>)            \* eval($X)
P_fooXX == CallTree(T_foo, <<T_X, T_X>>)        \* foo($X, $X)
P_fooXY == CallTree(T_foo, <<T_X, T_Y>>)        \* foo($X, $Y)
P_fooA3 == CallTree(T_foo, <<T_A3>>)            \* foo($$$A)
P_fnARGS3 == CallTree(T_FN, <<T_ARGS3>>)        \* $FN($$$ARGS)
\* foo(..., $X), the ellipsis a named child of the argument list
P_fooDotsX == CallTree(T_foo, <<T_dots, T_X>>)
S_foo_a == CallTree(T_foo, <<T_a>>)             \* foo(a)

\* the inputs of the search runs
Metavar(i) == <<36, 64 + i>>   \* "$A", "$B", ...
ArgName(i) == <<96 + i>>       \* "a", "b", ...
P_X == Wrap(K_program, Wrap(K_expression_statement, Leaf(K_identifier, T_X, 0)))   \* $X
P_a == Wrap(K_program, Wrap(K_expression_statement, Leaf(K_identifier, T_a, 0)))   \* a
\* foo($A, $B, ...) with n metavariables
P_vars(n) == CallTree(T_foo, [i \in 1..n |-> Metavar(i)])
\* foo(a, b, ...) with n arguments
S_args(n) == CallTree(T_foo, [i \in 1..n |-> ArgName(i)])
\* foo(b(a, ..), .., b(a, ..)): ManyOuter calls of ManyInner arguments each, more
\* nodes and more identifiers than a match list holds
InnerAt(i, len) == Len(T_foo) + 1 + (i - 1) * (len + 2)
InnerCalls(len) ==
  [i \in 1..ManyOuter |-> CallNode(T_b, [j \in 1..ManyInner |-> T_a], InnerAt(i, len))]
\* "(" inner ", " inner ... ")"
ManyArgsText(inner) ==
  [k \in 1..(ManyOuter * (Len(inner) + 2)) |->
     IF k = 1 THEN 40
     ELSE IF k = ManyOuter * (Len(inner) + 2) THEN 41
     ELSE IF (k - 2) % (Len(inner) + 2) < Len(inner)
          THEN inner[((k - 2) % (Len(inner) + 2)) + 1]
     ELSE IF (k - 2) % (Len(inner) + 2) = Len(inner) THEN 44
     ELSE 32]
ManyArguments(text, calls) ==
  [kind |-> K_arguments, text |-> text, sb |-> Len(T_foo),
   eb |-> Len(T_foo) + Len(text), named |-> TRUE,
   kids |-> calls,
   akids |-> [k \in 1..(2 * ManyOuter + 1) |->
                IF k = 1 THEN Tok(T_lparen, Len(T_foo))
                ELSE IF k = 2 * ManyOuter + 1
                     THEN Tok(T_rparen, Len(T_foo) + Len(text) - 1)
                ELSE IF k % 2 = 0 THEN calls[k \div 2]
                ELSE Tok(T_comma, calls[(k - 1) \div 2].eb)]]
ManyCall(text, arguments) ==
  [kind |-> K_call_expression, text |-> T_foo \o text, sb |-> 0,
   eb |-> Len(T_foo) + Len(text), named |-> TRUE,
   kids |-> <<Leaf(K_identifier, T_foo, 0), arguments>>,
   akids |-> <<Leaf(K_identifier, T_foo, 0), arguments>>]
ManyTree(text, calls) ==
  Wrap(K_program, Wrap(K_expression_statement,
                       ManyCall(text, ManyArguments(text, calls))))
ManyOf(calls) == ManyTree(ManyArgsText(calls[1].text), calls)
\* the inner calls are laid out by the length of one of them: "b(" a ", " a ... ")"
S_many == ManyOf(InnerCalls(Len(T_b) + 3 * ManyInner))

ShortArgs ==
  {<<>>} \cup {<<x>> : x \in {T_a, T_long}} \cup {<<x, y>> : x, y \in {T_a, T_long}}

\* (callee, arguments) of the calls searched for: eval($X), foo($X, $Y),
\* foo($A, ..) with as many metavariables as a match binds and with one more
PatternCalls ==
  {<<T_eval, <<T_X>>>>, <<T_foo, <<T_X, T_Y>>>>}
    \cup {<<T_foo, [i \in 1..n |-> Metavar(i)]>> : n \in {MAX_BINDINGS, MAX_BINDINGS + 1}}
\* (callee, arguments) of the calls searched in
SourceCalls ==
  {<<T_foo, args>> : args \in ShortArgs} \cup {<<T_eval, <<T_a>>>>}
    \cup {<<T_foo, [i \in 1..n |-> ArgName(i)]>> : n \in {MAX_BINDINGS, MAX_BINDINGS + 1}}

\* obj.(x): the parser recovers from the missing property name with a node of
\* width zero standing where the next token starts
MemberNode(object, property) ==
  [kind |-> K_member_expression, text |-> object.text \o T_dot \o property.text,
   sb |-> object.sb, eb |-> property.eb, named |-> TRUE, kids |-> <<object, property>>,
   akids |-> <<object, Tok(T_dot, object.eb), property>>]

MemberCall(member, arguments) ==
  [kind |-> K_call_expression, text |-> member.text \o arguments.text,
   sb |-> member.sb, eb |-> arguments.eb, named |-> TRUE,
   kids |-> <<member, arguments>>, akids |-> <<member, arguments>>]

MemberCallTree(member, args) ==
  Wrap(K_program, Wrap(K_expression_statement,
                       MemberCall(member, ArgumentsNode(args, member.eb))))

S_missing ==
  MemberCallTree(MemberNode(Leaf(K_identifier, T_obj, 0),
                            Leaf(K_property_identifier, <<>>, Len(T_obj) + 1)),
                 <<T_x>>)

SearchPatterns == {P_X, P_a} \cup {CallTree(c[1], c[2]) : c \in PatternCalls}
SearchSources == {S_many, S_missing} \cup {CallTree(c[1], c[2]) : c \in SourceCalls}

\* the whole tree, the tree without its first or last byte, the argument list
SearchRanges(tree) ==
  {<<0, tree.eb>>, <<1, tree.eb>>, <<0, tree.eb - 1>>, <<Len(T_foo), tree.eb>>}

\* the calls of the host runs: foo(a), eval($X), foo($X, $X)
HostCalls == {<<T_foo, <<T_a>>>>, <<T_eval, <<T_X>>>>, <<T_foo, <<T_X, T_X>>>>}

ParseTable ==
  {TryTree, P_X, P_a, S_many, S_missing}
    \cup {CallTree(c[1], c[2]) : c \in HostCalls \cup PatternCalls \cup SourceCalls}

\* a text outside the table parses to a bare program node (exact for "")
Parse(text) ==
  IF \E t \in ParseTable : t.text = text
  THEN CHOOSE t \in ParseTable : t.text = text
  ELSE [kind |-> K_program, text |-> text, sb |-> 0, eb |-> Len(text), named |-> TRUE,
        kids |-> <<>>, akids |-> <<>>]

NullPattern == [active |-> FALSE, text |-> <<>>, lang |-> 0]
CompiledPattern(text, lang) == [active |-> TRUE, text |-> text, lang |-> lang]

(***************************************************************************)
(* rule_engine.zig: evaluate                                               *)
(***************************************************************************)
RECURSIVE evaluate(_, _, _, _, _, _, _, _)
RECURSIVE allPrimary(_, _, _, _, _, _, _, _, _, _)
RECURSIVE allRelational(_, _, _, _, _, _, _, _, _)
RECURSIVE anyChildren(_, _, _, _, _, _, _, _, _)

\* Phase 1 of .all; returns [S, primary_initialized]
allPrimary(rs, node, ci, source_root, slots, out, S, pool, primary_initialized, depth) ==
  LET child_idx == PoolAt(pool, node.children_start + ci)
      child_node == RuleNodeAt(rs, child_idx, S.undef)
      \* S1: the scratch lists after the child was evaluated into eval_child_temp
      merge(S1) ==
        IF ~primary_initialized
        THEN SetList(S1, out, S1.ct)
        ELSE SetList(S1, out, intersectInPlace(ListAt(S1, out), S1.ct, out = "ct"))
  IN IF ci >= node.children_count
     THEN [S |-> S, primary_initialized |-> primary_initialized]
     ELSE IF isRelationalTag(child_node.tag)
     THEN allPrimary(rs, node, ci + 1, source_root, slots, out, S, pool, primary_initialized,
                     depth)
     ELSE allPrimary(rs, node, ci + 1, source_root, slots, out,
                     merge(evaluate(rs, child_idx, source_root, slots, "ct", S, pool, depth + 1)),
                     pool, TRUE, depth)

\* Phase 2 of .all
allRelational(rs, node, ci, source_root, slots, out, S, pool, depth) ==
  LET child_idx == PoolAt(pool, node.children_start + ci)
      child_node == RuleNodeAt(rs, child_idx, S.undef)
      not_child == RuleNodeAt(rs, child_node.child, S.undef)
      negated == child_node.tag = "op_not"
      eval_target == IF negated /\ not_child.tag \in {"inside", "has", "follows", "precedes"}
                     THEN not_child.child ELSE child_node.child
      \* S1: the scratch lists after the target was evaluated into eval_relational_temp
      filter(S1) ==
        SetList(S1, out,
                applyRelationalFilter(IF negated THEN not_child.tag ELSE child_node.tag,
                                      ListAt(S1, out), S1.rt, out = "rt", negated))
  IN IF ci >= node.children_count THEN S
     ELSE IF ~isRelationalTag(child_node.tag)
     THEN allRelational(rs, node, ci + 1, source_root, slots, out, S, pool, depth)
     ELSE allRelational(rs, node, ci + 1, source_root, slots, out,
                        filter(evaluate(rs, eval_target, source_root, slots, "rt", S, pool,
                                        depth + 1)),
                        pool, depth)

anyChildren(rs, node, ci, source_root, slots, out, S, pool, depth) ==
  LET child_idx == PoolAt(pool, node.children_start + ci)
      merge(S1) == SetList(S1, out, unionInPlace(ListAt(S1, out), S1.ct))
  IN IF ci >= node.children_count THEN S
     ELSE anyChildren(rs, node, ci + 1, source_root, slots, out,
                      merge(evaluate(rs, child_idx, source_root, slots, "ct", S, pool,
                                     depth + 1)),
                      pool, depth)

\* evaluate(rs, node_idx, source_root, compiled_slots, out): the scratch lists after it.
\* The recursion has no bound of its own: a call chain longer than the number of
\* nodes and rules has come back to a node it is already evaluating, so it never
\* returns and the call stack overflows (S.trap).
evaluate(rs, node_idx, source_root, slots, out, S, pool, depth) ==
  LET S0 == SetList(S, out, EmptyList)
      node == rs.nodes[node_idx + 1]
      handle == node.compiled_handle
      str == SubSeq(rs.bytecode, node.str_offset + 1, node.str_offset + node.str_len)
      relationalPhase(p) ==
        IF ~p.primary_initialized THEN p.S
        ELSE allRelational(rs, node, 0, source_root, slots, out, p.S, pool, depth)
  IN
  IF S.trap THEN S
  ELSE IF depth > Len(rs.nodes) + Len(rs.rules) THEN [S EXCEPT !.trap = TRUE]
  ELSE IF node_idx >= Len(rs.nodes) THEN S0
  ELSE CASE node.tag = "pattern" ->
         IF handle > 0 /\ handle <= 64 /\ slots[handle].active
         THEN SetList(S0, out,
                      searchMatches(Parse(slots[handle].text), source_root, EmptyList, 0))
         ELSE S0
    [] node.tag = "kind" ->
         IF str = K_comment \/ str = K_html_comment
         THEN SetList(S0, out, collectByKindAll(source_root, str, EmptyList, 0))
         ELSE SetList(S0, out, collectByKind(source_root, str, EmptyList, 0))
    [] node.tag = "regex" ->
         IF RegexCompiles(str)
         THEN SetList(S0, out, collectByRegex(source_root, str, EmptyList, 0))
         ELSE S0
    [] node.tag = "nth_child" ->
         SetList(S0, out, collectByNthChild(source_root, FALSE, source_root, node.index,
                                            EmptyList, 0))
    [] node.tag = "all" ->
         IF node.children_count = 0 THEN S0
         ELSE relationalPhase(allPrimary(rs, node, 0, source_root, slots, out, S0, pool, FALSE,
                                         depth))
    [] node.tag = "any" -> anyChildren(rs, node, 0, source_root, slots, out, S0, pool, depth)
    [] node.tag = "op_not" -> S0
    [] node.tag \in {"inside", "has", "follows", "precedes"} ->
         evaluate(rs, node.child, source_root, slots, out, S0, pool, depth + 1)
    [] node.tag = "matches" ->
         IF node.ref_index < Len(rs.rules)
         THEN evaluate(rs, rs.rules[node.ref_index + 1].root_node, source_root, slots, out,
                       S0, pool, depth + 1)
         ELSE S0

\* what a constraint entry that decode never wrote can read as
UndefinedReads == {"zero", "garbage"}

\* a constraint check that rejects no match
constraintFails_Never(rs, ci, m, undef) == FALSE

\* does constraint ci reject match m
constraintFails(rs, ci, m, undef) ==
  IF ci >= Len(rs.constraints) THEN undef = "garbage"
  ELSE
    LET constraint == rs.constraints[ci + 1]
        metavar_name == SubSeq(rs.bytecode, constraint.metavar_offset + 1,
                               constraint.metavar_offset + constraint.metavar_len)
        matched == RegexFind(constraint.compiled_regex.pattern,
                             BindingsGet(m.bindings, metavar_name))
    IN /\ BindingsHas(m.bindings, metavar_name)
       /\ ~constraint.compiled_regex.null
       /\ \/ constraint.constraint_type = 0 /\ ~matched
          \/ constraint.constraint_type = 1 /\ matched

constraintsPass(rs, rule, m, undef) ==
  \A ci \in rule.constraints_start..(rule.constraints_start + rule.constraints_count - 1) :
    ~constraintFails(rs, ci, m, undef)

evaluateRuleWithConstraints(rs, rule, source_root, slots, out, S, pool, undef) ==
  LET \* eval_child_temp = the matches that pass; out.* = eval_child_temp
      keep(S1, kept) == SetList([S1 EXCEPT !.ct = kept], out, kept)
      \* S1: the scratch lists after the rule body was evaluated into out
      check(S1) ==
        IF rule.constraints_count > 0 /\ ~S1.trap
        THEN keep(S1, AddAll(EmptyList,
                             SelectSeq(ListAt(S1, out),
                                       LAMBDA m : constraintsPass(rs, rule, m, undef)),
                             1))
        ELSE S1
  IN check(evaluate(rs, rule.root_node, source_root, slots, out, S, pool, 0))

(***************************************************************************)
(* Output literals of the serializers and grammar field names             *)
(***************************************************************************)
J_null == <<110, 117, 108, 108>>   \* null
J_true == <<116, 114, 117, 101>>   \* true
J_false == <<102, 97, 108, 115, 101>>   \* false
J_kind == <<123, 34, 107, 105, 110, 100, 34, 58, 34>>   \* {"kind":"
J_sb == <<34, 44, 34, 115, 98, 34, 58>>   \* ","sb":
J_eb == <<44, 34, 101, 98, 34, 58>>   \* ,"eb":
J_sr == <<44, 34, 115, 114, 34, 58>>   \* ,"sr":
J_sc == <<44, 34, 115, 99, 34, 58>>   \* ,"sc":
J_er == <<44, 34, 101, 114, 34, 58>>   \* ,"er":
J_ec == <<44, 34, 101, 99, 34, 58>>   \* ,"ec":
J_named == <<44, 34, 110, 97, 109, 101, 100, 34, 58>>   \* ,"named":
J_cc == <<44, 34, 99, 99, 34, 58>>   \* ,"cc":
J_ncc == <<44, 34, 110, 99, 99, 34, 58>>   \* ,"ncc":
J_ruleId == <<123, 34, 114, 117, 108, 101, 73, 100, 34, 58, 34>>   \* {"ruleId":"
J_severity == <<34, 44, 34, 115, 101, 118, 101, 114, 105, 116, 121, 34, 58, 34>>   \* ","severity":"
J_message == <<34, 44, 34, 109, 101, 115, 115, 97, 103, 101, 34, 58, 34>>   \* ","message":"
J_matches == <<34, 44, 34, 109, 97, 116, 99, 104, 101, 115, 34, 58, 91>>   \* ","matches":[
J_start_row == <<123, 34, 115, 116, 97, 114, 116, 95, 114, 111, 119, 34, 58>>   \* {"start_row":
J_start_col == <<44, 34, 115, 116, 97, 114, 116, 95, 99, 111, 108, 34, 58>>   \* ,"start_col":
J_end_row == <<44, 34, 101, 110, 100, 95, 114, 111, 119, 34, 58>>   \* ,"end_row":
J_end_col == <<44, 34, 101, 110, 100, 95, 99, 111, 108, 34, 58>>   \* ,"end_col":
J_start_byte == <<44, 34, 115, 116, 97, 114, 116, 95, 98, 121, 116, 101, 34, 58>>   \* ,"start_byte":
J_end_byte == <<44, 34, 101, 110, 100, 95, 98, 121, 116, 101, 34, 58>>   \* ,"end_byte":
J_bindings == <<44, 34, 98, 105, 110, 100, 105, 110, 103, 115, 34, 58, 123>>   \* ,"bindings":{
J_colon == <<34, 58, 34>>   \* ":"
J_close2 == <<125, 125>>   \* }}
J_fix == <<44, 34, 102, 105, 120, 34, 58, 34>>   \* ,"fix":"
J_error == <<101, 114, 114, 111, 114>>   \* error
J_warning == <<119, 97, 114, 110, 105, 110, 103>>   \* warning
J_info == <<105, 110, 102, 111>>   \* info
J_hint == <<104, 105, 110, 116>>   \* hint
J_esc_quote == <<92, 34>>   \* \"
J_esc_backslash == <<92, 92>>   \* \\
J_esc_n == <<92, 110>>   \* \n
J_esc_r == <<92, 114>>   \* \r
J_esc_t == <<92, 116>>   \* \t
J_esc_u00 == <<92, 117, 48, 48>>   \* \u00
F_function == <<102, 117, 110, 99, 116, 105, 111, 110>>   \* function
F_arguments == <<97, 114, 103, 117, 109, 101, 110, 116, 115>>   \* arguments
F_name == <<110, 97, 109, 101>>   \* name
F_value == <<118, 97, 108, 117, 101>>   \* value
F_body == <<98, 111, 100, 121>>   \* body
F_handler == <<104, 97, 110, 100, 108, 101, 114>>   \* handler
F_parameter == <<112, 97, 114, 97, 109, 101, 116, 101, 114>>   \* parameter

(***************************************************************************)
(* main.zig: the result buffer and its serializers.  A serializer yields   *)
(* the bytes result_buf[0..result_len].                                    *)
(***************************************************************************)
MAX_OUTPUT == 65536

writeU32LE(val) ==
  <<val % 256, (val \div 256) % 256, (val \div 65536) % 256, (val \div 16777216) % 256>>

\* writeEmptyArray: the 4-byte count 0
EmptyArrayBytes == <<0, 0, 0, 0>>

RECURSIVE serializeBindings(_, _)
serializeBindings(bs, i) ==
  IF i > Len(bs) THEN <<>>
  ELSE writeU32LE(Len(bs[i].name)) \o bs[i].name \o writeU32LE(Len(bs[i].text)) \o bs[i].text
         \o serializeBindings(bs, i + 1)

RECURSIVE serializeMatchRecords(_, _)
serializeMatchRecords(matches, i) ==
  IF i > Len(matches) THEN <<>>
  ELSE LET m == matches[i]
       IN writeU32LE(m.start_byte) \o writeU32LE(m.end_byte) \o writeU32LE(m.start_row)
            \o writeU32LE(m.start_col) \o writeU32LE(m.end_row) \o writeU32LE(m.end_col)
            \o writeU32LE(Len(m.bindings)) \o serializeBindings(m.bindings, 1)
            \o serializeMatchRecords(matches, i + 1)

\* returns 0 (no bytes) when the records do not fit
serializeMatches(matches) ==
  LET bytes == writeU32LE(Len(matches)) \o serializeMatchRecords(matches, 1)
  IN IF Len(bytes) > MAX_OUTPUT THEN <<>> ELSE bytes

RECURSIVE Decimal(_)
\* w.print("{d}", .{n})
Decimal(n) == IF n < 10 THEN <<48 + n>> ELSE Decimal(n \div 10) \o <<48 + (n % 10)>>

HexDigit(n) == IF n < 10 THEN 48 + n ELSE 87 + n

RECURSIVE writeJsonEscaped(_, _)
writeJsonEscaped(s, i) ==
  IF i > Len(s) THEN <<>>
  ELSE (CASE s[i] = 34 -> J_esc_quote
          [] s[i] = 92 -> J_esc_backslash
          [] s[i] = 10 -> J_esc_n
          [] s[i] = 13 -> J_esc_r
          [] s[i] = 9 -> J_esc_t
          [] OTHER -> IF s[i] < 32
                      THEN J_esc_u00 \o <<HexDigit(s[i] \div 16), HexDigit(s[i] % 16)>>
                      ELSE <<s[i]>>)
       \o writeJsonEscaped(s, i + 1)

serializeNodeInfo(node) ==
  J_kind \o node.kind \o J_sb \o Decimal(node.sb) \o J_eb \o Decimal(node.eb)
    \o J_sr \o Decimal(0) \o J_sc \o Decimal(node.sb) \o J_er \o Decimal(0)
    \o J_ec \o Decimal(node.eb) \o J_named \o (IF node.named THEN J_true ELSE J_false)
    \o J_cc \o Decimal(Len(node.akids)) \o J_ncc \o Decimal(Len(node.kids)) \o <<125>>

\* serializeNodeOrNull over a path (NoPath is the null node)
serializeNodeOrNull(root, path) ==
  IF path = NoPath THEN J_null
  ELSE LET bytes == serializeNodeInfo(NodeAtPath(root, path))
       IN IF Len(bytes) > MAX_OUTPUT THEN <<>> ELSE bytes

RECURSIVE serializeNodeList(_, _)
serializeNodeList(nodes, i) ==
  IF i > Len(nodes) THEN <<>>
  ELSE (IF i > 1 THEN <<44>> ELSE <<>>) \o serializeNodeInfo(nodes[i])
         \o serializeNodeList(nodes, i + 1)

RECURSIVE descendantForByteRange(_, _, _, _)
\* ts_node_descendant_for_byte_range: descend into the first child that ends at or
\* after the range end, while it starts at or before the range start
descendantForByteRange(root, path, start, end) ==
  LET node == NodeAtPath(root, path)
      ends == {i \in 1..Len(node.akids) : node.akids[i].eb >= end}
      first == CHOOSE i \in ends : \A j \in ends : i <= j
  IN IF ends = {} THEN path
     ELSE IF node.akids[first].sb > start THEN path
     ELSE descendantForByteRange(root, Append(path, first), start, end)

\* findNode: the path of the node, or NoPath
findNode(root, start_byte, end_byte, is_root) ==
  IF is_root = 1 THEN <<>>
  ELSE LET path == descendantForByteRange(root, <<>>, start_byte, end_byte)
           node == NodeAtPath(root, path)
       IN IF node.sb = start_byte /\ node.eb = end_byte THEN path ELSE NoPath

\* ts.Node.parent
parent(path) == IF path = <<>> THEN NoPath ELSE Front(path)

\* the fields of the grammar for the kinds of the sources: field name -> named child
FieldIndex(kind, name) ==
  CASE kind = K_call_expression /\ name = F_function -> 1
    [] kind = K_call_expression /\ name = F_arguments -> 2
    [] kind = K_variable_declarator /\ name = F_name -> 1
    [] kind = K_variable_declarator /\ name = F_value -> 2
    [] kind = K_try_statement /\ name = F_body -> 1
    [] kind = K_try_statement /\ name = F_handler -> 2
    [] kind = K_catch_clause /\ name = F_parameter -> 1
    [] kind = K_catch_clause /\ name = F_body -> 2
    [] OTHER -> 0

\* ts.Node.childByFieldName
childByFieldName(root, path, name) ==
  LET node == NodeAtPath(root, path)
      k == FieldIndex(node.kind, name)
  IN IF k = 0 \/ k > Len(NamedPositions(node)) THEN NoPath
     ELSE Append(path, NamedPositions(node)[k])

(***************************************************************************)
(* rule_engine.zig: applyAndSerialize                                      *)
(***************************************************************************)
severityString(sev) ==
  CASE sev = 1 -> J_warning
    [] sev = 2 -> J_info
    [] sev = 3 -> J_hint
    [] OTHER -> J_error

RECURSIVE serializeJsonBindings(_, _)
serializeJsonBindings(bs, i) ==
  IF i > Len(bs) THEN <<>>
  ELSE (IF i > 1 THEN <<44>> ELSE <<>>) \o <<34>> \o bs[i].name \o J_colon
         \o writeJsonEscaped(bs[i].text, 1) \o <<34>> \o serializeJsonBindings(bs, i + 1)

RECURSIVE serializeJsonMatches(_, _)
serializeJsonMatches(matches, mi) ==
  IF mi > Len(matches) THEN <<>>
  ELSE LET m == matches[mi]
       IN (IF mi > 1 THEN <<44>> ELSE <<>>)
            \o J_start_row \o Decimal(m.start_row) \o J_start_col \o Decimal(m.start_col)
            \o J_end_row \o Decimal(m.end_row) \o J_end_col \o Decimal(m.end_col)
            \o J_start_byte \o Decimal(m.start_byte) \o J_end_byte \o Decimal(m.end_byte)
            \o J_bindings \o serializeJsonBindings(m.bindings, 1) \o J_close2
            \o serializeJsonMatches(matches, mi + 1)

\* one rule's finding object
serializeFinding(rs, rule, matches) ==
  J_ruleId \o SubSeq(rs.bytecode, rule.id_offset + 1, rule.id_offset + rule.id_len)
    \o J_severity \o severityString(rule.severity)
    \o J_message
    \o writeJsonEscaped(SubSeq(rs.bytecode, rule.message_offset + 1,
                               rule.message_offset + rule.message_len), 1)
    \o J_matches \o serializeJsonMatches(matches, 1) \o <<93>>
    \o (IF rule.fix_len > 0
        THEN J_fix \o writeJsonEscaped(SubSeq(rs.bytecode, rule.fix_offset + 1,
                                              rule.fix_offset + rule.fix_len), 1) \o <<34>>
        ELSE <<>>)
    \o <<125>>

RECURSIVE applyRules(_, _, _, _, _, _, _, _, _)
\* the rule loop; returns [bytes, S]
applyRules(rs, ri, source_root, slots, S, pool, undef, bytes, first_rule) ==
  LET rule == rs.rules[ri + 1]
      \* S1: the scratch lists after the rule was evaluated into eval_merge_temp
      write(S1) ==
        IF Len(S1.mt) = 0
        THEN applyRules(rs, ri + 1, source_root, slots, S1, pool, undef, bytes, first_rule)
        ELSE applyRules(rs, ri + 1, source_root, slots, S1, pool, undef,
                        bytes \o (IF first_rule THEN <<>> ELSE <<44>>)
                              \o serializeFinding(rs, rule, S1.mt),
                        FALSE)
  IN IF ri >= Len(rs.rules) \/ S.trap THEN [bytes |-> bytes \o <<93>>, S |-> S]
     ELSE write(evaluateRuleWithConstraints(rs, rule, source_root, slots, "mt", S, pool, undef))

\* [bytes |-> result_buf[0..returned length], S |-> the scratch lists afterwards]
\* an applyAndSerialize that takes what the merge list still holds for its result
applyAndSerialize_StaleMerge(rs, source_root, slots, S, pool, undef) ==
  LET fit(r) == IF Len(r.bytes) > MAX_OUTPUT THEN [r EXCEPT !.bytes = <<>>] ELSE r
      r == fit(applyRules(rs, 0, source_root, slots, S, pool, undef, <<91>>, TRUE))
  IN IF S.mt = EmptyList THEN r ELSE [r EXCEPT !.bytes = <<91, 93>>]

applyAndSerialize(rs, source_root, slots, S, pool, undef) ==
  LET fit(r) == IF Len(r.bytes) > MAX_OUTPUT THEN [r EXCEPT !.bytes = <<>>] ELSE r
  IN fit(applyRules(rs, 0, source_root, slots, S, pool, undef, <<91>>, TRUE))

(***************************************************************************)
(* rule_engine.zig: compilePatterns / freePatterns                         *)
(***************************************************************************)
MAX_COMPILED == 64
MAX_SOURCES == 16
MAX_MATCH_SLOTS == 4
MAX_RULESETS == 2

\* a findFree that hands out the first slot whether or not it is null
findFree_FirstSlot(slots) == 0

\* findFree: the lowest index (0-based) of a null slot, or -1
findFree(slots) ==
  IF \E i \in 1..Len(slots) : ~slots[i].active
  THEN (CHOOSE i \in 1..Len(slots) : ~slots[i].active /\ \A j \in 1..(i - 1) : slots[j].active) - 1
  ELSE -1

\* the ts.Language a rule's language byte selects
RuleLanguage(rs) ==
  LET lang_byte == IF Len(rs.rules) > 0 THEN rs.rules[1].language ELSE 1
  IN IF lang_byte \in {1, 2, 3} THEN lang_byte ELSE 1

RECURSIVE compilePatternsFrom(_, _, _, _, _)
\* parsed counts the patterns parsed so far; the failAt-th parse returns null
compilePatternsFrom(rs, slots, ni, parsed, failAt) ==
  IF ni >= Len(rs.nodes) THEN [ok |-> TRUE, rs |-> rs, slots |-> slots]
  ELSE IF rs.nodes[ni + 1].tag # "pattern"
  THEN compilePatternsFrom(rs, slots, ni + 1, parsed, failAt)
  ELSE
    LET node == rs.nodes[ni + 1]
        pat_str == SubSeq(rs.bytecode, node.str_offset + 1, node.str_offset + node.str_len)
        si == findFree(slots)
    IN IF si = -1 THEN [ok |-> FALSE, rs |-> rs, slots |-> slots]
       ELSE IF parsed + 1 = failAt THEN [ok |-> FALSE, rs |-> rs, slots |-> slots]
       ELSE compilePatternsFrom(
              [rs EXCEPT !.nodes[ni + 1].compiled_handle = si + 1],
              [slots EXCEPT ![si + 1] = CompiledPattern(pat_str, RuleLanguage(rs))],
              ni + 1, parsed + 1, failAt)

\* [ok, rs, slots]: the ruleset with its handles and compiled_slots as left behind
compilePatterns(rs, slots, failAt) == compilePatternsFrom(rs, slots, 0, 0, failAt)

RECURSIVE freePatternsFrom(_, _, _)
freePatternsFrom(rs, slots, ni) ==
  IF ni >= Len(rs.nodes) THEN slots
  ELSE LET node == rs.nodes[ni + 1]
       IN IF node.tag = "pattern" /\ node.compiled_handle > 0
          THEN freePatternsFrom(rs, [slots EXCEPT ![node.compiled_handle] = NullPattern], ni + 1)
          ELSE freePatternsFrom(rs, slots, ni + 1)

\* a freePatterns that leaves the pattern slots as they are
freePatterns_Leak(rs, slots) == slots

\* compiled_slots after freePatterns
freePatterns(rs, slots) == freePatternsFrom(rs, slots, 0)

(***************************************************************************)
(* State.                                                                  *)
(***************************************************************************)
VARIABLES
  pat,        \* matcher run: the pattern tree
  src,        \* matcher run: the source tree
  found,      \* matcher run: the match list searchMatches returned
  phase,      \* matcher run: "ready" before the search, "done" after; "host" otherwise
  input,      \* decoder run: the bytecode buffer the host hands to load_ruleset
  range,      \* matcher run: the byte range of a range search
  operands,   \* list algebra run: the two match lists an operation is applied to
  compiled_slots,         \* main.zig: [MAX_COMPILED]?CompiledPattern
  source_slots,           \* main.zig: [MAX_SOURCES]?CompiledSource
  match_slots,            \* main.zig: [MAX_MATCH_SLOTS]?MatchList
  ruleset_slots,          \* main.zig: [MAX_RULESETS]?CompiledRuleset
  last_match_list,        \* main.zig: the staging match list
  result,                 \* main.zig: result_buf[0..result_len]
  children_pool,          \* rule_engine.zig: the shared children index pool
  children_pool_count,
  eval_child_temp,        \* rule_engine.zig: static scratch lists
  eval_relational_temp,
  eval_merge_temp,
  last,       \* the host call that returned last: name, handles, return value
  ops         \* number of host calls made

runVars == <<pat, src, found, phase, input, range, operands>>
tableVars == <<compiled_slots, source_slots, match_slots, ruleset_slots>>
poolVars == <<children_pool, children_pool_count>>
scratchVars == <<eval_child_temp, eval_relational_temp, eval_merge_temp>>
hostVars == <<tableVars, last_match_list, result, poolVars, scratchVars, last, ops>>
vars == <<runVars, hostVars>>

NullSource == [active |-> FALSE, text |-> <<>>, lang |-> 0]
CompiledSource(text, lang) == [active |-> TRUE, text |-> text, lang |-> lang]
NullMatches == [active |-> FALSE, list |-> <<>>]
StoredMatches(list) == [active |-> TRUE, list |-> list]
EmptyRuleset ==
  [rules |-> <<>>, nodes |-> <<>>, constraints |-> <<>>, transforms |-> <<>>, bytecode |-> <<>>]
NullRuleset == [active |-> FALSE, rs |-> EmptyRuleset]
LoadedRuleset(rs) == [active |-> TRUE, rs |-> rs]

FreeOps == {"free_pattern", "free_source", "free_matches", "free_ruleset"}

\* freed: the (free call, handle) pairs that have released a live slot so far;
\* undef: what the unwritten entries read as in the call (apply_ruleset);
\* again: the call before it was the same call on the same live handles
NoCall ==
  [op |-> "none", h |-> 0, h2 |-> 0, ret |-> 0, invalid |-> FALSE, failed |-> FALSE,
   trapped |-> FALSE, freed |-> {}, undef |-> "zero", again |-> FALSE]

\* no list algebra run
NoOperands == [a |-> EmptyList, b |-> EmptyList]

\* the module's globals as the instance starts
HostInit ==
  /\ compiled_slots = [i \in 1..MAX_COMPILED |-> NullPattern]
  /\ source_slots = [i \in 1..MAX_SOURCES |-> NullSource]
  /\ match_slots = [i \in 1..MAX_MATCH_SLOTS |-> NullMatches]
  /\ ruleset_slots = [i \in 1..MAX_RULESETS |-> NullRuleset]
  /\ last_match_list = EmptyList
  /\ result = <<>>
  /\ children_pool = [i \in 1..MAX_CHILDREN |-> 0]
  /\ children_pool_count = 0
  /\ eval_child_temp = EmptyList
  /\ eval_relational_temp = EmptyList
  /\ eval_merge_temp = EmptyList
  /\ last = NoCall

(***************************************************************************)
(* The matcher run: one pattern searched in one source.                    *)
(***************************************************************************)
Callees == {T_foo, T_eval, T_bar}
ArgTexts == {T_a, T_b, T_long}

RECURSIVE SeqsUpTo(_, _)
SeqsUpTo(S, n) ==
  IF n = 0 THEN {<<>>}
  ELSE LET shorter == SeqsUpTo(S, n - 1)
       IN shorter \cup {Append(q, x) : q \in {p \in shorter : Len(p) = n - 1}, x \in S}

SourceTrees == {CallTree(f, args) : f \in Callees, args \in SeqsUpTo(ArgTexts, MaxArgs)}

PatternTrees == {P_evalX, P_fooXX, P_fooXY, P_fooA3, P_fnARGS3, P_fooDotsX}

InitMatch ==
  /\ pat \in PatternTrees
  /\ src \in SourceTrees
  /\ found = EmptyList
  /\ phase = "ready"
  /\ input = <<>>
  /\ range = <<0, 0>>
  /\ operands = NoOperands
  /\ HostInit
  /\ ops = 0

Search ==
  /\ phase = "ready"
  /\ found' = searchMatches(pat, src, EmptyList, 0)
  /\ phase' = "done"
  /\ UNCHANGED <<pat, src, input, range, operands, hostVars>>

NextMatch == Search

SpecMatch == InitMatch /\ [][NextMatch]_vars

\* a range search into an empty list, as match_in_range runs it
SearchInRange ==
  /\ phase = "ready"
  /\ \E r \in SearchRanges(src) :
       /\ range' = r
       /\ found' = searchMatchesInRange(pat, src, EmptyList, 0, r[1], r[2])
  /\ phase' = "ranged"
  /\ UNCHANGED <<pat, src, input, operands, hostVars>>

(***************************************************************************)
(* main.zig: the host ABI.  Each action is one exported function.          *)
(***************************************************************************)
BadHandle(h, cap) == h = 0 \/ h > cap

\* the handle names a live slot of the table
LiveHandle(slots, h, cap) == ~BadHandle(h, cap) /\ slots[h].active

\* the call returns: one more host call made, and what it was
ReturnedReading(op, h, h2, ret, invalid, failed, undef) ==
  /\ ops > 0
  /\ ~last.trapped
  /\ ops' = ops - 1
  /\ last' = [op |-> op, h |-> h, h2 |-> h2, ret |-> ret, invalid |-> invalid,
              failed |-> failed, trapped |-> FALSE,
              freed |-> IF op \in FreeOps /\ ~invalid
                        THEN last.freed \cup {<<op, h>>} ELSE last.freed,
              undef |-> undef,
              again |-> /\ last.op = op /\ last.h = h /\ last.h2 = h2
                        /\ last.undef = undef /\ ~last.invalid /\ ~invalid]

Returned(op, h, h2, ret, invalid, failed) ==
  ReturnedReading(op, h, h2, ret, invalid, failed, "zero")

\* the call overflows the stack or panics and never returns: the instance takes no
\* more calls
Trapped(op, h, h2) ==
  /\ ops > 0
  /\ ~last.trapped
  /\ ops' = ops - 1
  /\ last' = [op |-> op, h |-> h, h2 |-> h2, ret |-> 0, invalid |-> FALSE,
              failed |-> FALSE, trapped |-> TRUE, freed |-> last.freed, undef |-> "zero",
              again |-> FALSE]

\* writeEmptyArray
writeEmptyArray ==
  /\ result' = EmptyArrayBytes
  /\ UNCHANGED last_match_list

\* last_match_list = matches; result_len = serializeMatches(&matches, &result_buf)
writeMatches(matches) ==
  /\ last_match_list' = matches
  /\ result' = serializeMatches(matches)

\* parse_ok: whether the parser returned a tree for each text handed to it
struct_match(pattern_source, source, parse_ok) ==
  /\ IF ~parse_ok THEN writeEmptyArray
     ELSE writeMatches(searchMatches(Parse(pattern_source), Parse(source), EmptyList, 0))
  /\ Returned("struct_match", 0, 0, 0, FALSE, ~parse_ok)
  /\ UNCHANGED <<runVars, tableVars, poolVars, scratchVars>>

compile_pattern(pattern_source, lang, parse_ok) ==
  LET slot_idx == findFree(compiled_slots)
      done == slot_idx # -1 /\ parse_ok
  IN /\ compiled_slots' = IF done
                          THEN [compiled_slots EXCEPT
                                  ![slot_idx + 1] = CompiledPattern(pattern_source, lang)]
                          ELSE compiled_slots
     /\ Returned("compile_pattern", 0, 0, IF done THEN slot_idx + 1 ELSE 0, FALSE,
                 slot_idx # -1 /\ ~parse_ok)
     /\ UNCHANGED <<runVars, source_slots, match_slots, ruleset_slots, last_match_list,
                    result, poolVars, scratchVars>>

match_pattern(handle, source, parse_ok) ==
  /\ IF ~LiveHandle(compiled_slots, handle, MAX_COMPILED) \/ ~parse_ok THEN writeEmptyArray
     ELSE writeMatches(searchMatches(Parse(compiled_slots[handle].text), Parse(source),
                                     EmptyList, 0))
  /\ Returned("match_pattern", handle, 0, 0,
              ~LiveHandle(compiled_slots, handle, MAX_COMPILED),
              LiveHandle(compiled_slots, handle, MAX_COMPILED) /\ ~parse_ok)
  /\ UNCHANGED <<runVars, tableVars, poolVars, scratchVars>>

free_pattern(handle) ==
  /\ compiled_slots' = IF LiveHandle(compiled_slots, handle, MAX_COMPILED)
                       THEN [compiled_slots EXCEPT ![handle] = NullPattern]
                       ELSE compiled_slots
  /\ Returned("free_pattern", handle, 0, 0,
              ~LiveHandle(compiled_slots, handle, MAX_COMPILED), FALSE)
  /\ UNCHANGED <<runVars, source_slots, match_slots, ruleset_slots, last_match_list,
                 result, poolVars, scratchVars>>

compile_source(source, lang, parse_ok) ==
  LET slot_idx == findFree(source_slots)
      done == slot_idx # -1 /\ parse_ok
  IN /\ source_slots' = IF done
                        THEN [source_slots EXCEPT
                                ![slot_idx + 1] = CompiledSource(source, lang)]
                        ELSE source_slots
     /\ Returned("compile_source", 0, 0, IF done THEN slot_idx + 1 ELSE 0, FALSE,
                 slot_idx # -1 /\ ~parse_ok)
     /\ UNCHANGED <<runVars, compiled_slots, match_slots, ruleset_slots, last_match_list,
                    result, poolVars, scratchVars>>

\* both handles name live slots
LivePair(pat_handle, src_handle) ==
  /\ LiveHandle(compiled_slots, pat_handle, MAX_COMPILED)
  /\ LiveHandle(source_slots, src_handle, MAX_SOURCES)

match_compiled(pat_handle, src_handle) ==
  /\ IF ~LivePair(pat_handle, src_handle) THEN writeEmptyArray
     ELSE writeMatches(searchMatches(Parse(compiled_slots[pat_handle].text),
                                     Parse(source_slots[src_handle].text), EmptyList, 0))
  /\ Returned("match_compiled", pat_handle, src_handle, 0,
              ~LivePair(pat_handle, src_handle), FALSE)
  /\ UNCHANGED <<runVars, tableVars, poolVars, scratchVars>>

\* a free_source that takes handle 0 for the first slot
free_source_ZeroIsFirst(handle) ==
  LET h == IF handle = 0 THEN 1 ELSE handle
  IN /\ source_slots' = IF LiveHandle(source_slots, h, MAX_SOURCES)
                        THEN [source_slots EXCEPT ![h] = NullSource]
                        ELSE source_slots
     /\ Returned("free_source", handle, 0, 0,
                 ~LiveHandle(source_slots, h, MAX_SOURCES), FALSE)
     /\ UNCHANGED <<runVars, compiled_slots, match_slots, ruleset_slots, last_match_list,
                    result, poolVars, scratchVars>>

free_source(handle) ==
  /\ source_slots' = IF LiveHandle(source_slots, handle, MAX_SOURCES)
                     THEN [source_slots EXCEPT ![handle] = NullSource]
                     ELSE source_slots
  /\ Returned("free_source", handle, 0, 0,
              ~LiveHandle(source_slots, handle, MAX_SOURCES), FALSE)
  /\ UNCHANGED <<runVars, compiled_slots, match_slots, ruleset_slots, last_match_list,
                 result, poolVars, scratchVars>>

store_matches ==
  LET idx == findFree(match_slots)
  IN /\ match_slots' = IF idx # -1
                       THEN [match_slots EXCEPT ![idx + 1] = StoredMatches(last_match_list)]
                       ELSE match_slots
     /\ Returned("store_matches", 0, 0, IF idx # -1 THEN idx + 1 ELSE 0, FALSE, FALSE)
     /\ UNCHANGED <<runVars, compiled_slots, source_slots, ruleset_slots, last_match_list,
                    result, poolVars, scratchVars>>

\* both handles name live match slots
LiveMatchPair(a_h, b_h) ==
  /\ LiveHandle(match_slots, a_h, MAX_MATCH_SLOTS)
  /\ LiveHandle(match_slots, b_h, MAX_MATCH_SLOTS)

\* a runFilter that filters the first slot in place instead of a copy of it
runFilter_InPlace(op, matches_h, ctx_h, filterFn) ==
  /\ IF ~LiveMatchPair(matches_h, ctx_h)
     THEN writeEmptyArray /\ UNCHANGED match_slots
     ELSE LET m_slot == match_slots[matches_h].list
              c_slot == match_slots[ctx_h].list
              filtered == CASE filterFn = "filterInside" -> filterInside(m_slot, c_slot)
                            [] filterFn = "filterNotInside" -> filterNotInside(m_slot, c_slot)
                            [] OTHER -> filterNot(m_slot, c_slot)
          IN /\ writeMatches(filtered)
             /\ match_slots' = [match_slots EXCEPT ![matches_h] = StoredMatches(filtered)]
  /\ Returned(op, matches_h, ctx_h, 0, ~LiveMatchPair(matches_h, ctx_h), FALSE)
  /\ UNCHANGED <<runVars, compiled_slots, source_slots, ruleset_slots, poolVars, scratchVars>>

\* filterFn: the matcher filter the export passes, by name
runFilter(op, matches_h, ctx_h, filterFn) ==
  /\ IF ~LiveMatchPair(matches_h, ctx_h) THEN writeEmptyArray
     ELSE LET m_copy == match_slots[matches_h].list
              c_slot == match_slots[ctx_h].list
          IN writeMatches(CASE filterFn = "filterInside" -> filterInside(m_copy, c_slot)
                            [] filterFn = "filterNotInside" -> filterNotInside(m_copy, c_slot)
                            [] OTHER -> filterNot(m_copy, c_slot))
  /\ Returned(op, matches_h, ctx_h, 0, ~LiveMatchPair(matches_h, ctx_h), FALSE)
  /\ UNCHANGED <<runVars, tableVars, poolVars, scratchVars>>

filter_inside(matches_h, ctx_h) == runFilter("filter_inside", matches_h, ctx_h, "filterInside")

filter_not_inside(matches_h, ctx_h) ==
  runFilter("filter_not_inside", matches_h, ctx_h, "filterNotInside")

filter_not(matches_h, excl_h) == runFilter("filter_not", matches_h, excl_h, "filterNot")

intersect_matches(a_h, b_h) ==
  /\ IF ~LiveMatchPair(a_h, b_h) THEN writeEmptyArray
     ELSE writeMatches(intersect(match_slots[a_h].list, match_slots[b_h].list))
  /\ Returned("intersect_matches", a_h, b_h, 0, ~LiveMatchPair(a_h, b_h), FALSE)
  /\ UNCHANGED <<runVars, tableVars, poolVars, scratchVars>>

\* a free_matches that clears the whole table for a handle in range
free_matches_All(handle) ==
  /\ match_slots' = IF BadHandle(handle, MAX_MATCH_SLOTS) THEN match_slots
                    ELSE [i \in 1..MAX_MATCH_SLOTS |-> NullMatches]
  /\ Returned("free_matches", handle, 0, 0,
              ~LiveHandle(match_slots, handle, MAX_MATCH_SLOTS), FALSE)
  /\ UNCHANGED <<runVars, compiled_slots, source_slots, ruleset_slots, last_match_list,
                 result, poolVars, scratchVars>>

free_matches(handle) ==
  /\ match_slots' = IF BadHandle(handle, MAX_MATCH_SLOTS) THEN match_slots
                    ELSE [match_slots EXCEPT ![handle] = NullMatches]
  /\ Returned("free_matches", handle, 0, 0,
              ~LiveHandle(match_slots, handle, MAX_MATCH_SLOTS), FALSE)
  /\ UNCHANGED <<runVars, compiled_slots, source_slots, ruleset_slots, last_match_list,
                 result, poolVars, scratchVars>>

kind_match(src_handle, kind) ==
  /\ IF ~LiveHandle(source_slots, src_handle, MAX_SOURCES) THEN writeEmptyArray
     ELSE writeMatches(collectByKind(Parse(source_slots[src_handle].text), kind, EmptyList, 0))
  /\ Returned("kind_match", src_handle, 0, 0,
              ~LiveHandle(source_slots, src_handle, MAX_SOURCES), FALSE)
  /\ UNCHANGED <<runVars, tableVars, poolVars, scratchVars>>

match_in_range(pat_handle, src_handle, start_byte, end_byte) ==
  /\ IF ~LivePair(pat_handle, src_handle) THEN writeEmptyArray
     ELSE writeMatches(searchMatchesInRange(Parse(compiled_slots[pat_handle].text),
                                            Parse(source_slots[src_handle].text),
                                            EmptyList, 0, start_byte, end_byte))
  /\ Returned("match_in_range", pat_handle, src_handle, 0,
              ~LivePair(pat_handle, src_handle), FALSE)
  /\ UNCHANGED <<runVars, tableVars, poolVars, scratchVars>>

RECURSIVE searchSiblings(_, _, _, _, _)
\* the `for (sibling_matches.slice()) |sib|` loop of matchSiblings
searchSiblings(pattern_root, source_root, sibling_matches, i, matches) ==
  IF i > Len(sibling_matches) THEN matches
  ELSE searchSiblings(pattern_root, source_root, sibling_matches, i + 1,
                      searchMatchesInRange(pattern_root, source_root, matches, 0,
                                           sibling_matches[i].start_byte,
                                           sibling_matches[i].end_byte))

matchSiblings(op, pat_handle, src_handle, node_start, node_end, preceding) ==
  /\ IF ~LivePair(pat_handle, src_handle) THEN writeEmptyArray
     ELSE LET source_root == Parse(source_slots[src_handle].text)
              sibling_matches ==
                IF preceding
                THEN collectPrecedingSiblings(source_root, node_start, node_end, EmptyList)
                ELSE collectFollowingSiblings(source_root, node_start, node_end, EmptyList)
          IN writeMatches(searchSiblings(Parse(compiled_slots[pat_handle].text), source_root,
                                         sibling_matches, 1, EmptyList))
  /\ Returned(op, pat_handle, src_handle, 0, ~LivePair(pat_handle, src_handle), FALSE)
  /\ UNCHANGED <<runVars, tableVars, poolVars, scratchVars>>

match_preceding(pat_handle, src_handle, node_start, node_end) ==
  matchSiblings("match_preceding", pat_handle, src_handle, node_start, node_end, TRUE)

match_following(pat_handle, src_handle, node_start, node_end) ==
  matchSiblings("match_following", pat_handle, src_handle, node_start, node_end, FALSE)

\* writeNull
writeNull ==
  /\ result' = J_null
  /\ UNCHANGED last_match_list

\* a node operation: bytes is what it leaves in result_buf[0..result_len]
nodeCall(op, src_handle, bytes) ==
  /\ result' = bytes
  /\ Returned(op, src_handle, 0, 0, ~LiveHandle(source_slots, src_handle, MAX_SOURCES), FALSE)
  /\ UNCHANGED <<runVars, tableVars, last_match_list, poolVars, scratchVars>>

SourceRoot(src_handle) == Parse(source_slots[src_handle].text)

node_root(src_handle) ==
  nodeCall("node_root", src_handle,
           IF ~LiveHandle(source_slots, src_handle, MAX_SOURCES) THEN J_null
           ELSE serializeNodeOrNull(SourceRoot(src_handle), <<>>))

node_info(src_handle, start_byte, end_byte, is_root) ==
  nodeCall("node_info", src_handle,
           IF ~LiveHandle(source_slots, src_handle, MAX_SOURCES) THEN J_null
           ELSE serializeNodeOrNull(SourceRoot(src_handle),
                                    findNode(SourceRoot(src_handle), start_byte, end_byte,
                                             is_root)))

serializeChildren(op, src_handle, start_byte, end_byte, is_root, named_only) ==
  nodeCall(op, src_handle,
           IF ~LiveHandle(source_slots, src_handle, MAX_SOURCES) THEN EmptyArrayBytes
           ELSE LET root == SourceRoot(src_handle)
                    path == findNode(root, start_byte, end_byte, is_root)
                    node == NodeAtPath(root, path)
                    bytes == <<91>>
                               \o serializeNodeList(IF named_only THEN node.kids ELSE node.akids, 1)
                               \o <<93>>
                IN IF path = NoPath THEN EmptyArrayBytes
                   ELSE IF Len(bytes) > MAX_OUTPUT THEN <<>> ELSE bytes)

node_children(src_handle, start_byte, end_byte, is_root) ==
  serializeChildren("node_children", src_handle, start_byte, end_byte, is_root, FALSE)

node_named_children(src_handle, start_byte, end_byte, is_root) ==
  serializeChildren("node_named_children", src_handle, start_byte, end_byte, is_root, TRUE)

\* the shape shared by node_parent, node_field_child, node_next and node_prev:
\* step(root, path) is the path of the node to serialize
nodeStep(op, src_handle, start_byte, end_byte, is_root, name) ==
  nodeCall(op, src_handle,
           IF ~LiveHandle(source_slots, src_handle, MAX_SOURCES) THEN J_null
           ELSE LET root == SourceRoot(src_handle)
                    path == findNode(root, start_byte, end_byte, is_root)
                IN IF path = NoPath THEN J_null
                   ELSE serializeNodeOrNull(root,
                          CASE op = "node_parent" -> parent(path)
                            [] op = "node_field_child" -> childByFieldName(root, path, name)
                            [] op = "node_next" -> nextNamedSibling(root, path)
                            [] OTHER -> prevNamedSibling(root, path)))

node_parent(src_handle, start_byte, end_byte, is_root) ==
  nodeStep("node_parent", src_handle, start_byte, end_byte, is_root, <<>>)

node_field_child(src_handle, start_byte, end_byte, is_root, name) ==
  nodeStep("node_field_child", src_handle, start_byte, end_byte, is_root, name)

node_next(src_handle, start_byte, end_byte, is_root) ==
  nodeStep("node_next", src_handle, start_byte, end_byte, is_root, <<>>)

node_prev(src_handle, start_byte, end_byte, is_root) ==
  nodeStep("node_prev", src_handle, start_byte, end_byte, is_root, <<>>)

\* failAt: which pattern parse of compilePatterns returns null (0: none)
load_ruleset(bytecode, failAt) ==
  LET slot_idx == findFree(ruleset_slots)
      \* d: the decoder as decode left it; cp: what compilePatterns returned
      store(d, cp) ==
        /\ children_pool' = d.pool
        /\ children_pool_count' = d.pool_count
        /\ compiled_slots' = IF d.ok THEN cp.slots ELSE compiled_slots
        /\ ruleset_slots' = IF d.ok /\ cp.ok
                            THEN [ruleset_slots EXCEPT ![slot_idx + 1] = LoadedRuleset(cp.rs)]
                            ELSE ruleset_slots
        /\ Returned("load_ruleset", 0, 0, IF d.ok /\ cp.ok THEN slot_idx + 1 ELSE 0, FALSE,
                    ~(d.ok /\ cp.ok))
      \* a store past the end of children_pool is caught (the call panics) in a
      \* build with bounds checks and lands in the memory after the array otherwise
      panic(d) ==
        /\ children_pool' = d.pool
        /\ children_pool_count' = MAX_CHILDREN
        /\ UNCHANGED <<compiled_slots, ruleset_slots>>
        /\ Trapped("load_ruleset", 0, 0)
      compile(d) ==
        \E checked \in (IF d.overrun THEN BOOLEAN ELSE {FALSE}) :
          IF checked THEN panic(d)
          ELSE store(d, compilePatterns(RulesetOf(bytecode, d), compiled_slots, failAt))
  IN /\ IF slot_idx = -1
        THEN /\ UNCHANGED <<poolVars, compiled_slots, ruleset_slots>>
             /\ Returned("load_ruleset", 0, 0, 0, FALSE, FALSE)
        ELSE compile(decode(bytecode, children_pool))
     /\ UNCHANGED <<runVars, source_slots, match_slots, last_match_list, result, scratchVars>>

\* both handles name live slots
LiveRulePair(ruleset_handle, src_handle) ==
  /\ LiveHandle(ruleset_slots, ruleset_handle, MAX_RULESETS)
  /\ LiveHandle(source_slots, src_handle, MAX_SOURCES)

\* undef: what a constraint entry that decode never wrote reads as
apply_ruleset(ruleset_handle, src_handle, undef) ==
  LET \* r: what applyAndSerialize wrote and the scratch lists it left
      done(r) ==
        IF r.S.trap
        THEN /\ UNCHANGED <<result, scratchVars>>
             /\ Trapped("apply_ruleset", ruleset_handle, src_handle)
        ELSE /\ result' = r.bytes
             /\ eval_child_temp' = r.S.ct
             /\ eval_relational_temp' = r.S.rt
             /\ eval_merge_temp' = r.S.mt
             /\ ReturnedReading("apply_ruleset", ruleset_handle, src_handle, 0, FALSE, FALSE,
                                undef)
  IN /\ IF ~LiveRulePair(ruleset_handle, src_handle)
        THEN /\ result' = EmptyArrayBytes
             /\ UNCHANGED scratchVars
             /\ Returned("apply_ruleset", ruleset_handle, src_handle, 0, TRUE, FALSE)
        ELSE done(applyAndSerialize(ruleset_slots[ruleset_handle].rs,
                                    SourceRoot(src_handle), compiled_slots,
                                    [ct |-> eval_child_temp, rt |-> eval_relational_temp,
                                     mt |-> eval_merge_temp, trap |-> FALSE,
                                     undef |-> undef],
                                    children_pool, undef))
     /\ UNCHANGED <<runVars, tableVars, last_match_list, poolVars>>

free_ruleset(handle) ==
  /\ IF LiveHandle(ruleset_slots, handle, MAX_RULESETS)
     THEN /\ compiled_slots' = freePatterns(ruleset_slots[handle].rs, compiled_slots)
          /\ ruleset_slots' = [ruleset_slots EXCEPT ![handle] = NullRuleset]
     ELSE UNCHANGED <<compiled_slots, ruleset_slots>>
  /\ Returned("free_ruleset", handle, 0, 0,
              ~LiveHandle(ruleset_slots, handle, MAX_RULESETS), FALSE)
  /\ UNCHANGED <<runVars, source_slots, match_slots, last_match_list, result, poolVars,
                 scratchVars>>

(***************************************************************************)
(* Inputs of the host calls.                                               *)
(***************************************************************************)
T_r0 == <<114, 48>>   \* "r0"
T_r1 == <<114, 49>>   \* "r1"
T_msg == <<109>>   \* "m"
T_caret_x == <<94, 120>>   \* "^x"
T_open_group == <<40>>   \* "(", a regex that does not compile
N_X == <<88>>   \* "X"
N_Y == <<89>>   \* "Y"

RuleDefinition(id, constraints, rule) ==
  [id |-> id, severity |-> "error", message |-> T_msg, language |-> "javascript",
   constraints |-> constraints, transform |-> <<>>, rule |-> rule]

RegexConstraint(name, regex) == [name |-> name, regex |-> regex, notRegex |-> <<>>]
NotRegexConstraint(name, notRegex) == [name |-> name, regex |-> <<>>, notRegex |-> notRegex]

EvalPattern == PatternRule(P_evalX.text)

\* all[eval($X), inside try_statement]
RS_inside ==
  <<RuleDefinition(T_r0, <<>>, AllRule(<<EvalPattern, InsideRule(KindRule(K_try_statement))>>))>>
\* all[eval($X), not(inside try_statement)]
RS_not_inside ==
  <<RuleDefinition(T_r0, <<>>,
                   AllRule(<<EvalPattern, NotRule(InsideRule(KindRule(K_try_statement)))>>))>>
\* all[variable_declaration, eval($X), not(catch_clause), has identifier]
RS_all_mixed ==
  <<RuleDefinition(T_r0, <<>>,
                   AllRule(<<HasRule(KindRule(K_identifier)), KindRule(K_variable_declaration),
                             NotRule(KindRule(K_catch_clause)), EvalPattern>>))>>
\* r0 = all[variable_declaration, eval($X)]; r1 = all[matches r0]
RS_all_ref ==
  <<RuleDefinition(T_r0, <<>>, AllRule(<<KindRule(K_variable_declaration), EvalPattern>>)),
    RuleDefinition(T_r1, <<>>, AllRule(<<MatchesRule(T_r0)>>))>>
\* r0 = all[eval($X), inside try_statement]; r1 = all[identifier, inside matches r0]
RS_all_inside_ref ==
  <<RuleDefinition(T_r0, <<>>, AllRule(<<EvalPattern, InsideRule(KindRule(K_try_statement))>>)),
    RuleDefinition(T_r1, <<>>,
                   AllRule(<<KindRule(K_identifier), InsideRule(MatchesRule(T_r0))>>))>>
\* any[try_statement, catch_clause]
RS_any ==
  <<RuleDefinition(T_r0, <<>>, AnyRule(<<KindRule(K_try_statement), KindRule(K_catch_clause)>>))>>
\* any[eval($X), call_expression, catch_clause]
RS_any_dup ==
  <<RuleDefinition(T_r0, <<>>,
                   AnyRule(<<EvalPattern, KindRule(K_call_expression),
                             KindRule(K_catch_clause)>>))>>
\* r0 = any[try_statement, catch_clause]; r1 = any[matches r0]
RS_any_ref ==
  <<RuleDefinition(T_r0, <<>>, AnyRule(<<KindRule(K_try_statement), KindRule(K_catch_clause)>>)),
    RuleDefinition(T_r1, <<>>, AnyRule(<<MatchesRule(T_r0)>>))>>
\* eval($X) with X: regex ^x
RS_regex == <<RuleDefinition(T_r0, <<RegexConstraint(N_X, T_caret_x)>>, EvalPattern)>>
\* eval($X) with X: notRegex ^x
RS_not_regex == <<RuleDefinition(T_r0, <<NotRegexConstraint(N_X, T_caret_x)>>, EvalPattern)>>
\* eval($X) with Y: regex ^x
RS_unbound == <<RuleDefinition(T_r0, <<RegexConstraint(N_Y, T_caret_x)>>, EvalPattern)>>
\* r0 = eval($X) with X: regex "("; r1 = eval($X) with X: notRegex ^x
RS_bad_regex ==
  <<RuleDefinition(T_r0, <<RegexConstraint(N_X, T_open_group)>>, EvalPattern),
    RuleDefinition(T_r1, <<NotRegexConstraint(N_X, T_caret_x)>>, EvalPattern)>>

\* r0 = matches r0
RS_self_ref == <<RuleDefinition(T_r0, <<>>, MatchesRule(T_r0))>>

RuleSets ==
  <<RS_inside, RS_not_inside, RS_all_mixed, RS_all_ref, RS_all_inside_ref, RS_any, RS_any_dup,
    RS_any_ref, RS_regex, RS_not_regex, RS_unbound, RS_bad_regex, RS_self_ref>>

\* the bytecode buffers the host passes: the encoded rulesets and a truncated one
Bytecodes ==
  {encodeRules(RuleSets[k]) : k \in 1..Len(RuleSets)}
    \cup {SubSeq(encodeRules(RS_inside), 1, 9)}

PatternSources == {P_evalX.text, P_fooXX.text}
SourceTexts == {S_try_text, S_foo_a.text}
Kinds == {K_call_expression, K_try_statement}
FieldNames == {F_function, F_body}

\* handles: zero, the first two slots, one past the table
Handles(cap) == {0, 1, 2, cap + 1}
\* pairs of handles of which at most one is not the first slot
HandlePairs(capA, capB) ==
  {<<1, 1>>} \cup {<<a, 1>> : a \in Handles(capA)} \cup {<<1, b>> : b \in Handles(capB)}

\* byte ranges: the first eval call, the try statement, the second declaration,
\* and a range that is no node
Ranges == {<<14, 21>>, <<0, 36>>, <<37, 53>>, <<1, 2>>}

\* (src_handle, kind) of the kind_match calls
KindCalls ==
  {<<1, k>> : k \in Kinds} \cup {<<h, K_call_expression>> : h \in Handles(MAX_SOURCES)}

\* (pat_handle, src_handle, start_byte, end_byte) of the calls that take a range
RangeCalls ==
  {<<1, 1, r[1], r[2]>> : r \in Ranges}
    \cup {<<hh[1], hh[2], 14, 21>> : hh \in HandlePairs(MAX_COMPILED, MAX_SOURCES)}

\* (pat_handle, src_handle, start_byte, end_byte) of the sibling searches
SiblingCalls ==
  {<<1, 1, r[1], r[2]>> : r \in Ranges} \cup {<<0, 1, 14, 21>>, <<1, MAX_SOURCES + 1, 14, 21>>}

\* (matches_handle, ctx_handle) of the filters and the intersection
MatchPairs == {<<1, 2>>, <<2, 1>>, <<1, 1>>, <<1, 3>>, <<0, 1>>, <<1, MAX_MATCH_SLOTS + 1>>}

\* the bytecode buffers of the host machine
HostBytecodes ==
  {encodeRules(RS_inside), encodeRules(RS_any), SubSeq(encodeRules(RS_inside), 1, 9)}

\* (src_handle, start_byte, end_byte, is_root, name) of the field lookups
FieldCalls ==
  {<<1, 14, 21, 0, F_function>>, <<1, 0, 36, 0, F_body>>, <<1, 14, 21, 0, F_body>>,
   <<0, 14, 21, 0, F_function>>, <<MAX_SOURCES + 1, 14, 21, 0, F_function>>}

\* (src_handle, start_byte, end_byte, is_root) of the node calls: on the first
\* source the first eval call, the try statement, the root and a range that is no
\* node; the first eval call on the other handles
NodeCalls ==
  {<<1, 14, 21, 0>>, <<1, 0, 36, 0>>, <<1, 0, 53, 1>>, <<1, 1, 2, 0>>}
    \cup {<<h, 14, 21, 0>> : h \in Handles(MAX_SOURCES)}

(***************************************************************************)
(* The host machine: initial slot configurations and the next-state        *)
(* relation.  Every initial configuration is one the calls named with it   *)
(* lead to from the empty instance.                                        *)
(***************************************************************************)
EvalMatches == searchMatches(P_evalX, TryTree, EmptyList, 0)
TryMatches == collectByKind(TryTree, K_try_statement, EmptyList, 0)

OneSlot(cap, null, slot) == [i \in 1..cap |-> IF i = 1 THEN slot ELSE null]

\* the instance as it starts
InitEmpty == HostInit

\* compile_pattern("eval($X)"); compile_source(try source)
InitReady ==
  /\ compiled_slots = OneSlot(MAX_COMPILED, NullPattern, CompiledPattern(P_evalX.text, 1))
  /\ source_slots = OneSlot(MAX_SOURCES, NullSource, CompiledSource(S_try_text, 1))
  /\ match_slots = [i \in 1..MAX_MATCH_SLOTS |-> NullMatches]
  /\ ruleset_slots = [i \in 1..MAX_RULESETS |-> NullRuleset]
  /\ last_match_list = EmptyList
  /\ result = <<>>
  /\ children_pool = [i \in 1..MAX_CHILDREN |-> 0]
  /\ children_pool_count = 0
  /\ eval_child_temp = EmptyList
  /\ eval_relational_temp = EmptyList
  /\ eval_merge_temp = EmptyList
  /\ last = [NoCall EXCEPT !.op = "compile_source", !.ret = 1]

\* ... then match_compiled(1, 1); store_matches(); kind_match(1, "try_statement");
\* store_matches()
InitStored ==
  /\ compiled_slots = OneSlot(MAX_COMPILED, NullPattern, CompiledPattern(P_evalX.text, 1))
  /\ source_slots = OneSlot(MAX_SOURCES, NullSource, CompiledSource(S_try_text, 1))
  /\ match_slots = [i \in 1..MAX_MATCH_SLOTS |->
                      IF i = 1 THEN StoredMatches(EvalMatches)
                      ELSE IF i = 2 THEN StoredMatches(TryMatches) ELSE NullMatches]
  /\ ruleset_slots = [i \in 1..MAX_RULESETS |-> NullRuleset]
  /\ last_match_list = TryMatches
  /\ result = serializeMatches(TryMatches)
  /\ children_pool = [i \in 1..MAX_CHILDREN |-> 0]
  /\ children_pool_count = 0
  /\ eval_child_temp = EmptyList
  /\ eval_relational_temp = EmptyList
  /\ eval_merge_temp = EmptyList
  /\ last = [NoCall EXCEPT !.op = "store_matches", !.ret = 2]

\* what load_ruleset(bytecode) leaves behind in an instance st with a free ruleset
\* slot: the pool, the compiled patterns and the rulesets loaded so far
LoadedNext(bytecode, st) ==
  LET store(d, cp) ==
        [pool |-> d.pool, pool_count |-> d.pool_count, slots |-> cp.slots,
         rulesets |-> Append(st.rulesets, LoadedRuleset(cp.rs))]
      compile(d) == store(d, compilePatterns(RulesetOf(bytecode, d), st.slots, 0))
  IN compile(decode(bytecode, st.pool))

NothingLoaded ==
  [pool |-> [i \in 1..MAX_CHILDREN |-> 0], pool_count |-> 0,
   slots |-> [i \in 1..MAX_COMPILED |-> NullPattern], rulesets |-> <<>>]

\* load_ruleset(all[eval($X), inside try_statement]) twice, then compile_pattern("eval($X)")
\* until the table is full, compile_source 16 times, store_matches() four times
InitFull ==
  LET full(st) ==
        /\ compiled_slots = [i \in 1..MAX_COMPILED |->
                               IF st.slots[i].active THEN st.slots[i]
                               ELSE CompiledPattern(P_evalX.text, 1)]
        /\ ruleset_slots = st.rulesets
        /\ children_pool = st.pool
        /\ children_pool_count = st.pool_count
  IN /\ full(LoadedNext(encodeRules(RS_inside),
                        LoadedNext(encodeRules(RS_inside), NothingLoaded)))
     /\ source_slots = [i \in 1..MAX_SOURCES |-> CompiledSource(S_try_text, 1)]
     /\ match_slots = [i \in 1..MAX_MATCH_SLOTS |-> StoredMatches(EmptyList)]
     /\ last_match_list = EmptyList
     /\ result = <<>>
     /\ eval_child_temp = EmptyList
     /\ eval_relational_temp = EmptyList
     /\ eval_merge_temp = EmptyList
     /\ last = [NoCall EXCEPT !.op = "store_matches", !.ret = MAX_MATCH_SLOTS]

NoRun ==
  /\ pat = P_evalX
  /\ src = TryTree
  /\ found = EmptyList
  /\ phase = "host"
  /\ input = <<>>
  /\ range = <<0, 0>>
  /\ operands = NoOperands

Init == NoRun /\ ops = MaxOps /\ (InitEmpty \/ InitReady \/ InitStored \/ InitFull)

Next ==
  \/ \E p \in PatternSources, s \in SourceTexts : struct_match(p, s, TRUE)
  \/ struct_match(P_evalX.text, S_try_text, FALSE)
  \/ \E p \in PatternSources : compile_pattern(p, 1, TRUE)
  \/ compile_pattern(P_evalX.text, 1, FALSE)
  \/ \E h \in Handles(MAX_COMPILED) : match_pattern(h, S_try_text, TRUE)
  \/ match_pattern(1, S_foo_a.text, TRUE)
  \/ match_pattern(1, S_try_text, FALSE)
  \/ \E h \in Handles(MAX_COMPILED) : free_pattern(h)
  \/ \E s \in SourceTexts : compile_source(s, 1, TRUE)
  \/ compile_source(S_try_text, 1, FALSE)
  \/ \E hh \in HandlePairs(MAX_COMPILED, MAX_SOURCES) : match_compiled(hh[1], hh[2])
  \/ \E h \in Handles(MAX_SOURCES) : free_source(h)
  \/ store_matches
  \/ \E hh \in MatchPairs : filter_inside(hh[1], hh[2])
  \/ \E hh \in MatchPairs : filter_not_inside(hh[1], hh[2])
  \/ \E hh \in MatchPairs : filter_not(hh[1], hh[2])
  \/ \E hh \in MatchPairs : intersect_matches(hh[1], hh[2])
  \/ \E h \in Handles(MAX_MATCH_SLOTS) : free_matches(h)
  \/ \E c \in KindCalls : kind_match(c[1], c[2])
  \/ \E c \in RangeCalls : match_in_range(c[1], c[2], c[3], c[4])
  \/ \E c \in SiblingCalls : match_preceding(c[1], c[2], c[3], c[4])
  \/ \E c \in SiblingCalls : match_following(c[1], c[2], c[3], c[4])
  \/ \E h \in Handles(MAX_SOURCES) : node_root(h)
  \/ \E c \in NodeCalls : node_info(c[1], c[2], c[3], c[4])
  \/ \E c \in NodeCalls : node_children(c[1], c[2], c[3], c[4])
  \/ \E c \in NodeCalls : node_named_children(c[1], c[2], c[3], c[4])
  \/ \E c \in NodeCalls : node_parent(c[1], c[2], c[3], c[4])
  \/ \E c \in FieldCalls : node_field_child(c[1], c[2], c[3], c[4], c[5])
  \/ \E c \in NodeCalls : node_next(c[1], c[2], c[3], c[4])
  \/ \E c \in NodeCalls : node_prev(c[1], c[2], c[3], c[4])
  \/ \E b \in HostBytecodes : load_ruleset(b, 0)
  \/ load_ruleset(encodeRules(RS_inside), 1)
  \/ \E hh \in HandlePairs(MAX_RULESETS, MAX_SOURCES) : apply_ruleset(hh[1], hh[2], "zero")
  \/ apply_ruleset(1, 1, "garbage")
  \/ \E h \in Handles(MAX_RULESETS) : free_ruleset(h)

Spec == Init /\ [][Next]_vars

(***************************************************************************)
(* The rule engine alone: rulesets loaded and applied to compiled sources, *)
(* with no other host call in between.                                     *)
(***************************************************************************)
InitRules == NoRun /\ ops = MaxRuleOps /\ (InitEmpty \/ InitReady)

NextRules ==
  \/ \E b \in Bytecodes : load_ruleset(b, 0)
  \/ \E s \in SourceTexts : compile_source(s, 1, TRUE)
  \/ \E rh \in 1..MAX_RULESETS, sh \in 1..2, u \in UndefinedReads : apply_ruleset(rh, sh, u)
  \/ \E h \in 1..MAX_RULESETS : free_ruleset(h)

SpecRules == InitRules /\ [][NextRules]_vars

(***************************************************************************)
(* The handle lifecycle alone: the calls that fill and release slots.      *)
(***************************************************************************)
InitLife == NoRun /\ ops = MaxLifeOps /\ (InitEmpty \/ InitReady \/ InitStored)

NextLife ==
  \/ compile_pattern(P_evalX.text, 1, TRUE)
  \/ compile_source(S_try_text, 1, TRUE)
  \/ match_compiled(1, 1)
  \/ store_matches
  \/ \E b \in HostBytecodes : load_ruleset(b, 0)
  \/ load_ruleset(encodeRules(RS_inside), 1)
  \/ \E h \in Handles(MAX_COMPILED) : free_pattern(h)
  \/ \E h \in Handles(MAX_SOURCES) : free_source(h)
  \/ \E h \in Handles(MAX_MATCH_SLOTS) : free_matches(h)
  \/ \E h \in Handles(MAX_RULESETS) : free_ruleset(h)

SpecLife == InitLife /\ [][NextLife]_vars

(***************************************************************************)
(* Claims about the matcher run (SpecMatch).                               *)
(***************************************************************************)
CalleeOf(tree) == tree.kids[1].kids[1].kids[1].text
ArgsOf(tree) == tree.kids[1].kids[1].kids[2].kids

UniqueNames(bs) ==
  \A i, j \in 1..Len(bs) : bs[i].name = bs[j].name => i = j

\* C1: a pattern whose callee is a literal leaf (neither a metavariable nor an
\* ellipsis) reports a match only on a call whose callee has byte-equal text;
\* eval($X) reports nothing on a source whose only call has another callee.
C1_LiteralLeafTextEqual ==
  (phase = "done" /\ ~isMetavar(CalleeOf(pat)) /\ found # EmptyList)
    => CalleeOf(src) = CalleeOf(pat)

\* C2 as stated: on a call foo(a, b), foo($X,$X) matches iff the two argument
\* texts are byte-equal, each metavariable is bound once per match, and
\* foo($X,$Y) matches whatever the two texts are.
C2_UnificationAnyText ==
  (phase = "done" /\ CalleeOf(src) = T_foo /\ Len(ArgsOf(src)) = 2)
    => /\ pat = P_fooXX =>
            ((found # EmptyList) <=> (ArgsOf(src)[1].text = ArgsOf(src)[2].text))
       /\ pat = P_fooXY => found # EmptyList
       /\ \A i \in 1..Len(found) : UniqueNames(found[i].bindings)

\* C2 amended: the same, for argument texts of at most MAX_BINDING_TEXT bytes
\* (a longer text cannot be bound, so the candidate is rejected).
C2_Unification ==
  (/\ phase = "done" /\ CalleeOf(src) = T_foo /\ Len(ArgsOf(src)) = 2
   /\ \A i \in 1..2 : Len(ArgsOf(src)[i].text) <= MAX_BINDING_TEXT)
    => /\ pat = P_fooXX =>
            ((found # EmptyList) <=> (ArgsOf(src)[1].text = ArgsOf(src)[2].text))
       /\ pat = P_fooXY => found # EmptyList
       /\ \A i \in 1..Len(found) : UniqueNames(found[i].bindings)

\* C2 witness: foo($X,$X) searched in foo(a, a) reported a match binding X to "a".
C2_Witness ==
  /\ phase = "done" /\ pat = P_fooXX /\ src = CallTree(T_foo, <<T_a, T_a>>)
  /\ Len(found) = 1
  /\ Len(found[1].bindings) = 1
  /\ found[1].bindings[1].name = <<88>> /\ found[1].bindings[1].text = T_a

\* C3: a pattern child written $$$NAME is an ellipsis absorbing zero or more
\* source siblings: foo($$$A) matches foo(), foo(a), foo(a,b,c), and
\* $FN($$$ARGS) matches every call.
C3_TripleDollarEllipsis ==
  (phase = "done")
    => /\ (pat = P_fooA3 /\ CalleeOf(src) = T_foo) => found # EmptyList
       /\ pat = P_fnARGS3 => found # EmptyList


(***************************************************************************)
(* Claims about rule evaluation (SpecRules).  RuleMatches is what the rule *)
(* semantics of the specification assign to a rule object on a tree; the   *)
(* claims compare what apply_ruleset left in the result buffer with it.    *)
(***************************************************************************)
RelationalOps == {"inside", "has", "follows", "precedes"}

\* the elements of `other` appended to acc, later duplicates by exact range dropped
RECURSIVE UnionByRange(_, _, _)
UnionByRange(acc, other, i) ==
  IF i > Len(other) THEN acc
  ELSE UnionByRange(IF \E j \in 1..Len(acc) : predExact(acc[j], other[i])
                    THEN acc ELSE Append(acc, other[i]),
                    other, i + 1)

RECURSIVE RuleMatches(_, _, _)
RECURSIVE AnyMatches(_, _, _, _, _)
\* does match m pass the relational child c of an `all`
RelationalKeeps(rules, c, tree, m) ==
  IF c.op = "not"
  THEN IF c.kid.op \in RelationalOps
       THEN ~\E r \in {x[1] : x \in {<<RuleMatches(rules, c.kid.kid, tree)[j]>> :
                                       j \in 1..Len(RuleMatches(rules, c.kid.kid, tree))}} :
               predFn(c.kid.op, m, r)
       ELSE ~\E j \in 1..Len(RuleMatches(rules, c.kid, tree)) :
               predExact(m, RuleMatches(rules, c.kid, tree)[j])
  ELSE \E j \in 1..Len(RuleMatches(rules, c.kid, tree)) :
         predFn(c.op, m, RuleMatches(rules, c.kid, tree)[j])

\* the union of the results of kids[i..], in child order
AnyMatches(rules, kids, i, tree, acc) ==
  IF i > Len(kids) THEN acc
  ELSE AnyMatches(rules, kids, i + 1, tree,
                  UnionByRange(acc, RuleMatches(rules, kids[i], tree), 1))

\* the matches of a rule object on a tree
RuleMatches(rules, rule, tree) ==
  CASE rule.op = "pattern" -> searchMatches(Parse(rule.str), tree, EmptyList, 0)
    [] rule.op = "kind" -> collectByKind(tree, rule.str, EmptyList, 0)
    [] rule.op = "regex" -> collectByRegex(tree, rule.str, EmptyList, 0)
    [] rule.op = "nthChild" -> collectByNthChild(tree, FALSE, tree, rule.n, EmptyList, 0)
    [] rule.op = "all" ->
         LET primary == SelectSeq(rule.kids, LAMBDA c : c.op \notin RelationalOps \cup {"not"})
             relational == SelectSeq(rule.kids, LAMBDA c : c.op \in RelationalOps \cup {"not"})
         IN IF primary = <<>> THEN EmptyList
            ELSE SelectSeq(RuleMatches(rules, primary[1], tree),
                           LAMBDA m :
                             /\ \A i \in 2..Len(primary) :
                                  \E j \in 1..Len(RuleMatches(rules, primary[i], tree)) :
                                    predOverlaps(m, RuleMatches(rules, primary[i], tree)[j])
                             /\ \A i \in 1..Len(relational) :
                                  RelationalKeeps(rules, relational[i], tree, m))
    [] rule.op = "any" -> AnyMatches(rules, rule.kids, 1, tree, EmptyList)
    [] rule.op = "not" -> EmptyList
    [] rule.op \in RelationalOps -> RuleMatches(rules, rule.kid, tree)
    [] rule.op = "matches" ->
         RuleMatches(rules, rules[ruleIndexMap(rules, rule.id) + 1].rule, tree)

\* does match m satisfy constraint c (a regex that does not compile is inert)
ConstraintSatisfied(c, m) ==
  \/ ~BindingsHas(m.bindings, c.name)
  \/ /\ c.regex # <<>>
     /\ ~RegexCompiles(c.regex) \/ RegexFind(c.regex, BindingsGet(m.bindings, c.name))
  \/ /\ c.notRegex # <<>>
     /\ ~RegexCompiles(c.notRegex) \/ ~RegexFind(c.notRegex, BindingsGet(m.bindings, c.name))

\* the matches a rule definition reports: its body's, kept by its own constraints
DefinitionMatches(rules, i, tree) ==
  SelectSeq(RuleMatches(rules, rules[i].rule, tree),
            LAMBDA m : \A j \in 1..Len(rules[i].constraints) :
                         ConstraintSatisfied(rules[i].constraints[j], m))

RECURSIVE FindingsFrom(_, _, _, _, _)
\* the findings array of rules[i..] as apply_ruleset writes it
FindingsFrom(rules, rs, i, tree, first_rule) ==
  IF i > Len(rules) THEN <<93>>
  ELSE IF DefinitionMatches(rules, i, tree) = <<>>
  THEN FindingsFrom(rules, rs, i + 1, tree, first_rule)
  ELSE (IF first_rule THEN <<>> ELSE <<44>>)
         \o serializeFinding(rs, rs.rules[i], DefinitionMatches(rules, i, tree))
         \o FindingsFrom(rules, rs, i + 1, tree, FALSE)

ExpectedFindings(rules, rs, tree) == <<91>> \o FindingsFrom(rules, rs, 1, tree, TRUE)

\* the last call was apply_ruleset on live handles, and it returned
Applied == last.op = "apply_ruleset" /\ ~last.invalid /\ ~last.trapped

\* the ruleset applied by the last call is the k-th of the family
AppliedIs(k) == Applied /\ ruleset_slots[last.h].rs.bytecode = encodeRules(RuleSets[k])

\* the result buffer holds the findings the rule semantics give for ruleset k
ResultAsSpecified(k) ==
  AppliedIs(k) =>
    result = ExpectedFindings(RuleSets[k], ruleset_slots[last.h].rs,
                              Parse(source_slots[last.h2].text))

\* rulesets of the family whose composite nodes are all `all`, all `any`, and
\* the ones with constraints
AllFamily == 1..5
AnyFamily == 6..8
ConstraintFamily == 9..12

\* C4: after apply_ruleset, every rule built from `all` nodes reports exactly the
\* matches of its first primary child that overlap a match of each other primary
\* child and pass every relational child, wherever the `all` node is evaluated.
C4_AllSemantics == \A k \in AllFamily : ResultAsSpecified(k)

\* C5: after apply_ruleset, every rule built from `any` nodes reports the union of
\* its children's results in child order without duplicates by range, also when
\* the `any` node is reached through a `matches` reference.
C5_AnyUnion == \A k \in AnyFamily : ResultAsSpecified(k)

\* C6: after apply_ruleset, a rule reports exactly the matches of its body whose
\* bound texts satisfy the rule's own constraints; an unbound name never rejects
\* and no other rule's constraint is applied.
C6_OwnConstraints == \A k \in ConstraintFamily : ResultAsSpecified(k)

(***************************************************************************)
(* The decoder alone: one bytecode buffer, loaded and released.            *)
(***************************************************************************)
B_inside == encodeRules(RS_inside)
B_any == encodeRules(RS_any)

Prefixes(b) == {SubSeq(b, 1, k) : k \in 0..Len(b)}

\* bytes that are no opcode
UnknownOpcodes == {0, 5, 24, 96}
\* bytes other than the ruleset marker
WrongMarkers == {0, OP_RULE, 254}

\* b with another byte where the opcode of its last node, a kind node over str, is
WithLeafOpcode(b, str, op) == [b EXCEPT ![Len(b) - Len(str) - 2] = op]
\* b with another byte where the opcode of its first rule's root node is
WithRootOpcode(b, rule, op) == [b EXCEPT ![6 + Len(encodeRule(rule, <<rule>>)) -
                                            Len(encodeRuleNode(rule.rule, <<rule>>))] = op]
WithMarker(b, m) == [b EXCEPT ![1] = m]

UnknownOpcodeInputs ==
  {WithLeafOpcode(B_any, K_catch_clause, op) : op \in UnknownOpcodes}
    \cup {WithRootOpcode(B_any, RS_any[1], op) : op \in UnknownOpcodes}
WrongMarkerInputs == {WithMarker(B_inside, m) : m \in WrongMarkers}

\* n kind nodes
Leaves(n) == [i \in 1..n |-> KindRule(K_identifier)]
\* n all nodes of 7 leaves each: 8 pool entries apiece, the node's and its children's
Groups(n) == [i \in 1..n |-> AllRule(Leaves(7))]
\* all[8 groups]: the pool exactly full
RS_pool_full == <<RuleDefinition(T_r0, <<>>, AllRule(Groups(8)))>>
\* all[8 groups, leaf]: one child more than the pool holds
RS_pool_over ==
  <<RuleDefinition(T_r0, <<>>, AllRule(Groups(8) \o Leaves(1)))>>
\* all[7 groups, all[8 leaves]]: the inner node takes the last pool entry
RS_pool_nested ==
  <<RuleDefinition(T_r0, <<>>, AllRule(Groups(7) \o <<AllRule(Leaves(8))>>))>>

\* all[any[try_statement, catch_clause], identifier]
RS_nested ==
  <<RuleDefinition(T_r0, <<>>,
                   AllRule(<<AnyRule(<<KindRule(K_try_statement), KindRule(K_catch_clause)>>),
                             KindRule(K_identifier)>>))>>

\* the rulesets whose encodings are decoded whole
DecodedRuleSets == {RS_inside, RS_any, RS_nested, RS_pool_full, RS_pool_over, RS_pool_nested}

DecodeInputs ==
  Prefixes(B_inside) \cup Prefixes(B_any) \cup {B_inside \o <<0>>, B_any \o B_any}
    \cup UnknownOpcodeInputs \cup WrongMarkerInputs
    \cup {encodeRules(rules) : rules \in DecodedRuleSets}

InitDecode ==
  /\ pat = P_evalX
  /\ src = TryTree
  /\ found = EmptyList
  /\ phase = "host"
  /\ input \in DecodeInputs
  /\ range = <<0, 0>>
  /\ operands = NoOperands
  /\ ops = MaxDecodeOps
  /\ InitEmpty

NextDecode ==
  \/ load_ruleset(input, 0)
  \/ \E h \in 1..MAX_RULESETS : free_ruleset(h)

SpecDecode == InitDecode /\ [][NextDecode]_vars

(***************************************************************************)
(* The search runs: one pattern and one source, searched whole or in a     *)
(* range, and the host calls that take the same pair through the match     *)
(* lists of the instance.                                                  *)
(***************************************************************************)
\* kind: identifier
RS_identifiers == <<RuleDefinition(T_r0, <<>>, KindRule(K_identifier))>>

\* compile_source(src); load_ruleset(kind: identifier)
InitSearch ==
  LET st == LoadedNext(encodeRules(RS_identifiers), NothingLoaded)
  IN /\ pat \in SearchPatterns
     /\ src \in SearchSources
     /\ found = EmptyList
     /\ phase = "ready"
     /\ input = <<>>
     /\ range = <<0, 0>>
     /\ operands = NoOperands
     /\ compiled_slots = st.slots
     /\ source_slots = OneSlot(MAX_SOURCES, NullSource, CompiledSource(src.text, 1))
     /\ match_slots = [i \in 1..MAX_MATCH_SLOTS |-> NullMatches]
     /\ ruleset_slots = OneSlot(MAX_RULESETS, NullRuleset, st.rulesets[1])
     /\ last_match_list = EmptyList
     /\ result = <<>>
     /\ children_pool = st.pool
     /\ children_pool_count = st.pool_count
     /\ eval_child_temp = EmptyList
     /\ eval_relational_temp = EmptyList
     /\ eval_merge_temp = EmptyList
     /\ last = [NoCall EXCEPT !.op = "load_ruleset", !.ret = 1]
     /\ ops = MaxSearchOps

NextSearch ==
  \/ Search
  \/ SearchInRange
  \/ struct_match(pat.text, src.text, TRUE)
  \/ store_matches
  \/ apply_ruleset(1, 1, "zero")

SpecSearch == InitSearch /\ [][NextSearch]_vars

(***************************************************************************)
(* The list algebra alone: one operation of matcher.zig or one in-place    *)
(* filter of rule_engine.zig applied to two match lists.                   *)
(***************************************************************************)
\* a match over the byte range r with bindings bs
RangeMatch(r, bs) == MatchOf([sb |-> r[1], eb |-> r[2]], bs)

B_X_a == bind(EmptyBindings, metavarName(T_X), T_a, 2, 3).b

\* an outer range, one inside it, one that overlaps that one, an empty range, one
\* apart from the others; the inner range also with a binding
AlgebraMatches ==
  {RangeMatch(r, EmptyBindings) : r \in {<<0, 10>>, <<2, 5>>, <<4, 8>>, <<5, 5>>, <<12, 14>>}}
    \cup {RangeMatch(<<2, 5>>, B_X_a)}

\* a list at capacity, its ranges apart from those of AlgebraMatches
FullList == [i \in 1..MAX_MATCHES |-> RangeMatch(<<100 + 2 * i, 101 + 2 * i>>, EmptyBindings)]

AlgebraLists ==
  SeqsUpTo(AlgebraMatches, MaxListLen)
    \cup {<<RangeMatch(<<2, 5>>, B_X_a), RangeMatch(<<12, 14>>, EmptyBindings),
            RangeMatch(<<4, 8>>, EmptyBindings)>>,
          <<RangeMatch(<<5, 5>>, EmptyBindings), RangeMatch(<<0, 10>>, EmptyBindings),
            RangeMatch(<<2, 5>>, EmptyBindings)>>,
          FullList}

InitAlgebra ==
  /\ pat = P_evalX
  /\ src = TryTree
  /\ found = EmptyList
  /\ phase = "ready"
  /\ input = <<>>
  /\ range = <<0, 0>>
  /\ operands \in [a : AlgebraLists, b : AlgebraLists]
  /\ HostInit
  /\ ops = 0

\* the operation `name` returns (or leaves in its output list) the list `list`
Apply(name, list) ==
  /\ phase = "ready"
  /\ found' = list
  /\ phase' = name
  /\ UNCHANGED <<pat, src, input, range, operands, hostVars>>

FilterInside == Apply("filterInside", filterInside(operands.a, operands.b))
FilterNotInside == Apply("filterNotInside", filterNotInside(operands.a, operands.b))
Intersect == Apply("intersect", intersect(operands.a, operands.b))
IntersectSelf == Apply("intersect(A,A)", intersect(operands.a, operands.a))
UnionMatches == Apply("unionMatches", unionMatches(operands.a, operands.b))
UnionSelf == Apply("unionMatches(A,A)", unionMatches(operands.a, operands.a))
\* the in-place filters, with refs another list than out
FilterInsideInPlace ==
  Apply("filterInsideInPlace",
          applyRelationalFilter("inside", operands.a, operands.b, FALSE, FALSE))
FilterNotInsideInPlace ==
  Apply("filterNotInsideInPlace",
          applyRelationalFilter("inside", operands.a, operands.b, FALSE, TRUE))
IntersectInPlace ==
  Apply("intersectInPlace", intersectInPlace(operands.a, operands.b, FALSE))
UnionInPlace == Apply("unionInPlace", unionInPlace(operands.a, operands.b))
\* the in-place filters, with refs the list out itself
FilterInsideInPlaceSelf ==
  Apply("filterInsideInPlace(A,A)",
          applyRelationalFilter("inside", operands.a, operands.a, TRUE, FALSE))
FilterNotInsideInPlaceSelf ==
  Apply("filterNotInsideInPlace(A,A)",
          applyRelationalFilter("inside", operands.a, operands.a, TRUE, TRUE))
IntersectInPlaceSelf ==
  Apply("intersectInPlace(A,A)", intersectInPlace(operands.a, operands.a, TRUE))

NextAlgebra ==
  \/ FilterInside
  \/ FilterNotInside
  \/ Intersect
  \/ IntersectSelf
  \/ UnionMatches
  \/ UnionSelf
  \/ FilterInsideInPlace
  \/ FilterNotInsideInPlace
  \/ IntersectInPlace
  \/ UnionInPlace
  \/ FilterInsideInPlaceSelf
  \/ FilterNotInsideInPlaceSelf
  \/ IntersectInPlaceSelf

SpecAlgebra == InitAlgebra /\ [][NextAlgebra]_vars

(***************************************************************************)
(* Claims about the host machine (Spec).                                   *)
(***************************************************************************)
MatchOps ==
  {"struct_match", "match_pattern", "match_compiled", "match_in_range", "kind_match",
   "match_preceding", "match_following", "filter_inside", "filter_not_inside", "filter_not",
   "intersect_matches"}
ArrayOps == {"apply_ruleset", "node_children", "node_named_children"}
SingleNodeOps ==
  {"node_root", "node_info", "node_parent", "node_field_child", "node_next", "node_prev"}
J_empty_array == <<91, 93>>   \* []

\* C7: after a match or filter operation has returned, also with an empty result
\* for an invalid handle or a parse failure, the staging match list holds exactly
\* the matches the result buffer reports, so that store_matches called next
\* stores that operation's result.
C7_StagingIsReported == last.op \in MatchOps => result = serializeMatches(last_match_list)

\* C8: store_matches puts the staging list as it is at the call into the slot
\* whose handle it returns, and a stored list changes in no step other than
\* free_matches of its own handle.
C8_StoredListStable ==
  [][/\ (last'.op = "store_matches" /\ last'.ret > 0)
         => match_slots'[last'.ret] = StoredMatches(last_match_list)
     /\ \A h \in 1..MAX_MATCH_SLOTS :
          (match_slots[h].active /\ ~(last'.op = "free_matches" /\ last'.h = h))
            => match_slots'[h] = match_slots[h]]_vars

\* the try statements were stored in slot 3, then a filter that takes the stored
\* eval calls of slot 1 as its input reported fewer matches than slot 1 holds
C8_Witness ==
  /\ last.op = "filter_inside" /\ last.h = 1 /\ last.h2 = 3 /\ ~last.invalid
  /\ match_slots[3] = StoredMatches(TryMatches)
  /\ match_slots[1] = StoredMatches(EvalMatches)
  /\ last_match_list # EvalMatches
  /\ last_match_list # TryMatches

\* C9: an operation given a handle that is 0, out of range or freed leaves the
\* empty result of its own output format: binary count=0 for the match and
\* filter operations, JSON [] for apply_ruleset, node_children and
\* node_named_children, JSON null for the single-node operations.
C9_EmptyInOwnFormat ==
  last.invalid =>
    /\ last.op \in MatchOps => result = EmptyArrayBytes
    /\ last.op \in ArrayOps => result = J_empty_array
    /\ last.op \in SingleNodeOps => result = J_null

\* the call op returned 0 or the handle of a slot of its table that was free
\* before the call and is occupied after it, and 0 with every table unchanged
\* when its table had no free slot
Allocates(op, slots, slots_after, cap) ==
  last'.op = op =>
    /\ last'.ret \in 0..cap
    /\ last'.ret > 0 => (~slots[last'.ret].active /\ slots_after[last'.ret].active)
    /\ (\A i \in 1..cap : slots[i].active) => (last'.ret = 0 /\ UNCHANGED tableVars)

\* C10: compile_pattern, compile_source, store_matches and load_ruleset return 0
\* or a handle in 1..capacity of a slot that was free before the call and is
\* occupied after it; with no free slot in the table they return 0 and leave
\* every slot table unchanged.
C10_HandlesNameFreshSlots ==
  [][/\ Allocates("compile_pattern", compiled_slots, compiled_slots', MAX_COMPILED)
     /\ Allocates("compile_source", source_slots, source_slots', MAX_SOURCES)
     /\ Allocates("store_matches", match_slots, match_slots', MAX_MATCH_SLOTS)
     /\ Allocates("load_ruleset", ruleset_slots, ruleset_slots', MAX_RULESETS)]_vars

\* two rulesets loaded one after the other hold the two handles of the table
C10_Witness ==
  /\ last.op = "load_ruleset" /\ last.ret = 2
  /\ ruleset_slots[1].active /\ ruleset_slots[2].active
  /\ ruleset_slots[1].rs.nodes # ruleset_slots[2].rs.nodes

(***************************************************************************)
(* Claims about the handle lifecycle (SpecLife).                           *)
(***************************************************************************)
\* the slot table a free call works on
TableOf(op) ==
  CASE op = "free_pattern" -> compiled_slots
    [] op = "free_source" -> source_slots
    [] op = "free_matches" -> match_slots
    [] OTHER -> ruleset_slots

CapacityOf(op) ==
  CASE op = "free_pattern" -> MAX_COMPILED
    [] op = "free_source" -> MAX_SOURCES
    [] op = "free_matches" -> MAX_MATCH_SLOTS
    [] OTHER -> MAX_RULESETS

\* the step is the free call op with a handle that an earlier call freed
FreesAgain(op) == last'.op = op /\ <<op, last'.h>> \in last.freed

\* C11 (as stated): a free call with a handle that an earlier call already freed
\* changes no slot table, in whatever state it is made.
C11_DoubleFreeAnyState ==
  [][\A op \in FreeOps : FreesAgain(op) => UNCHANGED tableVars]_vars

\* C11: a free call with a handle that an earlier call freed and whose slot has
\* not been filled again changes no slot table and nothing else of the instance.
C11_DoubleFreeNoOp ==
  [][\A op \in FreeOps :
       (FreesAgain(op) /\ ~TableOf(op)[last'.h].active)
         => UNCHANGED <<tableVars, last_match_list, result, poolVars, scratchVars>>]_vars

\* free_ruleset was called a second time with the handle of a ruleset already
\* freed, while a compiled pattern is live
C11_Witness ==
  /\ last.op = "free_ruleset" /\ last.invalid
  /\ <<"free_ruleset", last.h>> \in last.freed
  /\ \E i \in 1..MAX_COMPILED : compiled_slots[i].active

\* C12: a free call with handle 0 or a handle above the capacity of its table
\* leaves the four slot tables, the staging match list and the result buffer
\* unchanged.
C12_FreeOutOfRange ==
  [][\A op \in FreeOps :
       (last'.op = op /\ BadHandle(last'.h, CapacityOf(op)))
         => UNCHANGED <<tableVars, last_match_list, result>>]_vars

\* free_matches returned for a handle above the capacity while matches are
\* stored and staged
C12_Witness ==
  /\ last.op = "free_matches" /\ last.h > MAX_MATCH_SLOTS
  /\ match_slots[1].active /\ match_slots[2].active
  /\ last_match_list # EmptyList /\ result # <<>>

(***************************************************************************)
(* Claims about loading and applying rulesets (SpecRules).                 *)
(***************************************************************************)
\* C13: every apply_ruleset call on a ruleset that load_ruleset accepted returns:
\* no call is left in a recursion that never comes back, also when a `matches`
\* node refers to the rule that contains it.
C13_ApplyTerminates == ~last.trapped

\* the constraint entries rule i of ruleset rs refers to
ConstraintRange(rs, i) ==
  rs.rules[i].constraints_start ..
    (rs.rules[i].constraints_start + rs.rules[i].constraints_count - 1)

\* C16: in every loaded ruleset, also one with a regex that did not compile, each
\* rule's constraint range lies within the constraints that decode recorded and
\* shares no entry with the range of another rule.
C16_OwnConstraintRange ==
  \A h \in 1..MAX_RULESETS :
    ruleset_slots[h].active =>
      LET rs == ruleset_slots[h].rs
      IN \A i \in 1..Len(rs.rules) :
           /\ ConstraintRange(rs, i) \subseteq 0..(Len(rs.constraints) - 1)
           /\ \A j \in 1..Len(rs.rules) :
                i # j => ConstraintRange(rs, i) \cap ConstraintRange(rs, j) = {}

\* C17: an apply_ruleset call that follows an apply_ruleset call on the same live
\* ruleset and source handles writes the same bytes to the result buffer as the
\* call before it, whatever that call left in the scratch lists.
C17_RuleIdempotence ==
  [][(Applied /\ Applied' /\ last'.again) => result' = result]_vars

\* the second of two apply_ruleset calls on the same handles returned findings
C17_Witness ==
  /\ Applied /\ last.again
  /\ Len(result) > 2
  /\ eval_merge_temp # EmptyList

\* the occupied slots of a table
Occupied(slots) == {i \in DOMAIN slots : slots[i].active}

\* the compiled-pattern handles stashed in the pattern nodes of a ruleset
PatternHandles(rs) ==
  {rs.nodes[n].compiled_handle :
     n \in {k \in 1..Len(rs.nodes) :
              rs.nodes[k].tag = "pattern" /\ rs.nodes[k].compiled_handle > 0}}

\* the step is a load_ruleset call that returns a handle
LoadsNow == last'.op = "load_ruleset" /\ last'.ret > 0
\* the step is free_ruleset on the handle that the load_ruleset call before it returned
FreesLoaded ==
  /\ last.op = "load_ruleset" /\ last.ret > 0
  /\ last'.op = "free_ruleset" /\ last'.h = last.ret

\* C18: a successful load_ruleset occupies one free ruleset slot and, for its
\* pattern nodes, compiled-pattern slots that were free, and free_ruleset on the
\* returned handle right after it empties exactly those slots again: both tables
\* have the occupied slots they had before the load.
C18_LoadFreeCycle ==
  [][/\ LoadsNow =>
          /\ last'.ret \notin Occupied(ruleset_slots)
          /\ Occupied(ruleset_slots') = Occupied(ruleset_slots) \cup {last'.ret}
          /\ PatternHandles(ruleset_slots'[last'.ret].rs) \cap Occupied(compiled_slots) = {}
          /\ Occupied(compiled_slots') =
               Occupied(compiled_slots) \cup PatternHandles(ruleset_slots'[last'.ret].rs)
     /\ FreesLoaded =>
          /\ Occupied(ruleset_slots') = Occupied(ruleset_slots) \ {last.ret}
          /\ Occupied(compiled_slots') =
               Occupied(compiled_slots) \ PatternHandles(ruleset_slots[last.ret].rs)]_vars

\* a ruleset with a pattern was loaded again into the slot that a free_ruleset
\* call had emptied, next to a pattern compiled by the host
C18_Witness ==
  /\ last.op = "load_ruleset" /\ last.ret = 1
  /\ <<"free_ruleset", 1>> \in last.freed
  /\ Occupied(compiled_slots) = {1} \cup PatternHandles(ruleset_slots[1].rs)
  /\ 2 \in PatternHandles(ruleset_slots[1].rs)

(***************************************************************************)
(* Claims about the decoder (SpecDecode).                                  *)
(***************************************************************************)
\* the tables of a stored ruleset are within their capacities
WithinTables(rs) ==
  /\ Len(rs.rules) <= MAX_RULES
  /\ Len(rs.nodes) <= MAX_RULE_NODES
  /\ Len(rs.constraints) <= MAX_CONSTRAINTS
  /\ Len(rs.transforms) <= MAX_TRANSFORMS

\* C14: whatever bytes load_ruleset is handed, decode returns without a store past
\* the end of a table: the child pool never holds more than 64 entries and every
\* stored ruleset has at most 32 rules, 128 nodes, 16 constraints and 16
\* transforms, also when the all/any nodes that fill the pool are nested.
C14_DecodeWithinTables ==
  /\ ~last.trapped
  /\ children_pool_count <= MAX_CHILDREN
  /\ \A h \in 1..MAX_RULESETS : ruleset_slots[h].active => WithinTables(ruleset_slots[h].rs)

IsStrictPrefix(p, b) == Len(p) < Len(b) /\ p = SubSeq(b, 1, Len(p))

\* the buffer is a strict prefix of a buffer that decodes, or has a byte that is
\* no opcode in the place of a node opcode, or a wrong leading marker
Malformed(b) ==
  \/ b \in UnknownOpcodeInputs
  \/ b \in WrongMarkerInputs
  \/ \E f \in DecodeInputs : IsStrictPrefix(b, f) /\ decode(f, children_pool).ok

\* C15: load_ruleset returns 0 and occupies no ruleset slot for every strict prefix
\* of a buffer that decodes, for a buffer with an unknown node opcode and for a
\* buffer with a wrong leading marker.
C15_MalformedRejected ==
  (last.op = "load_ruleset" /\ Malformed(input))
    => (last.ret = 0 /\ \A h \in 1..MAX_RULESETS : ~ruleset_slots[h].active)

(***************************************************************************)
(* Claims about the search runs (SpecSearch).                              *)
(***************************************************************************)
RECURSIVE PreOrder(_)
RECURSIVE PreOrderKids(_, _)
\* the nodes of a tree in the order a search visits them
PreOrderKids(node, i) ==
  IF i > Len(node.kids) THEN <<>> ELSE PreOrder(node.kids[i]) \o PreOrderKids(node, i + 1)
PreOrder(node) == <<node>> \o PreOrderKids(node, 1)

SameRange(a, b) == a.sb = b.sb /\ a.eb = b.eb

\* the pattern of the run matches at node n
MatchesAt(n) == matchNode(unwrapProgramRoot(pat), n, EmptyBindings, 0).ok
\* node n lies within the range of the run (a whole search has none)
InRange(n) == phase = "done" \/ (n.sb >= range[1] /\ n.eb <= range[2])

\* the nodes at which the run reports: visited, in range, matching
Candidates == SelectSeq(PreOrder(src), LAMBDA n : MatchesAt(n) /\ InRange(n))

\* the indices of the nodes of c that no earlier node of c shares its range with,
\* in increasing order
FirstIndices(c) ==
  SelectSeq([i \in 1..Len(c) |-> i],
            LAMBDA i : \A j \in 1..(i - 1) : ~SameRange(c[j], c[i]))

\* those nodes, in the order of c
KeepFirsts(c) ==
  LET first == FirstIndices(c)
  IN SubSeq([k \in 1..Len(first) |-> c[first[k]]], 1, Len(first))

Searched == phase \in {"done", "ranged"}

\* the match the run reports at node n
ReportedAt(n) == MatchOf(n, matchNode(unwrapProgramRoot(pat), n, EmptyBindings, 0).b)

\* C19: the result of a search, whole or in a range, has no two matches with the
\* same (start_byte, end_byte): of the matching nodes with one range the first
\* visited is reported, at its place in the visiting order.
C19_Dedup ==
  Searched =>
    /\ \A i, j \in 1..Len(found) :
         (found[i].start_byte = found[j].start_byte
          /\ found[i].end_byte = found[j].end_byte) => i = j
    /\ LET firsts == KeepFirsts(Candidates)
       IN /\ Len(found) = IF Len(firsts) < MAX_MATCHES THEN Len(firsts) ELSE MAX_MATCHES
          /\ \A k \in 1..Len(found) : found[k] = ReportedAt(firsts[k])

\* $X searched in foo(a, a): the statement, the call and the program node share
\* one range and are reported once, the two arguments after them
C19_Witness ==
  /\ Searched /\ pat = P_X /\ src = CallTree(T_foo, <<T_a, T_a>>)
  /\ Len(Candidates) = 7
  /\ Len(found) = 5
  /\ found[1].start_byte = 0 /\ found[1].end_byte = src.eb

\* a match list and the bindings of its matches are within their capacities
WithinCapacity(list) ==
  /\ Len(list) <= MAX_MATCHES
  /\ \A k \in 1..Len(list) :
       /\ Len(list[k].bindings) <= MAX_BINDINGS
       /\ \A b \in 1..Len(list[k].bindings) :
            Len(list[k].bindings[b].text) <= MAX_BINDING_TEXT

\* C20: every match list (a search result, the staging list, the stored lists, the
\* evaluator scratch lists) holds at most 64 matches of at most 16 bindings of at
\* most 256 bytes; a search that finds more reports the first 64 unchanged; a
\* pattern with a 17th metavariable, or a metavariable over a longer text, does
\* not match there, while 16 metavariables over 16 arguments are all bound.
C20_CapacityBounds ==
  /\ WithinCapacity(found) /\ WithinCapacity(last_match_list)
  /\ WithinCapacity(eval_child_temp) /\ WithinCapacity(eval_relational_temp)
  /\ WithinCapacity(eval_merge_temp)
  /\ \A i \in 1..MAX_MATCH_SLOTS : WithinCapacity(match_slots[i].list)
  /\ (phase = "done" /\ Len(KeepFirsts(Candidates)) > MAX_MATCHES)
       => found = [k \in 1..MAX_MATCHES |-> ReportedAt(KeepFirsts(Candidates)[k])]
  /\ (phase = "done" /\ pat = P_vars(MAX_BINDINGS + 1)) => found = EmptyList
  /\ (phase = "done" /\ pat = P_vars(MAX_BINDINGS) /\ src = S_args(MAX_BINDINGS))
       => Len(found) = 1 /\ Len(found[1].bindings) = MAX_BINDINGS
  /\ (phase = "done" /\ pat = P_fooXY /\ \E i \in 1..Len(ArgsOf(src)) :
                                            Len(ArgsOf(src)[i].text) > MAX_BINDING_TEXT)
       => found = EmptyList

\* $X searched in foo(b(a, ..), ..): more nodes match than a list holds; the search
\* result, the staging list and the stored list are full, every match with its one
\* binding
C20_Witness ==
  /\ phase = "done" /\ pat = P_X /\ src = S_many
  /\ Len(KeepFirsts(Candidates)) > MAX_MATCHES
  /\ Len(found) = MAX_MATCHES
  /\ Len(last_match_list) = MAX_MATCHES
  /\ Len(match_slots[1].list) = MAX_MATCHES
  /\ \A k \in 1..MAX_MATCHES : Len(found[k].bindings) = 1

(***************************************************************************)
(* Claims about the list algebra (SpecAlgebra).                            *)
(***************************************************************************)
InSeq(m, list) == \E i \in 1..Len(list) : list[i] = m

\* kept and rest split out: each element of out is in exactly one of them, and
\* each is the elements of out that it holds, in the order of out
Partitions(out, kept, rest) ==
  /\ \A i \in 1..Len(out) : InSeq(out[i], kept) # InSeq(out[i], rest)
  /\ kept = SelectSeq(out, LAMBDA m : InSeq(m, kept))
  /\ rest = SelectSeq(out, LAMBDA m : InSeq(m, rest))

\* C21: inside(OUT, REFS) and not_inside(OUT, REFS) partition OUT, each keeping
\* the order and the bindings of OUT and holding nothing else; for the by-value
\* filters of matcher.zig and for the in-place filters of rule_engine.zig, also
\* when REFS is the list OUT itself.
C21_Partition ==
  /\ phase = "filterInside"
       => Partitions(operands.a, found, filterNotInside(operands.a, operands.b))
  /\ phase = "filterNotInside"
       => Partitions(operands.a, filterInside(operands.a, operands.b), found)
  /\ phase = "filterInsideInPlace"
       => Partitions(operands.a, found,
                     applyRelationalFilter("inside", operands.a, operands.b, FALSE, TRUE))
  /\ phase = "filterNotInsideInPlace"
       => Partitions(operands.a,
                     applyRelationalFilter("inside", operands.a, operands.b, FALSE, FALSE),
                     found)
  /\ phase = "filterInsideInPlace(A,A)"
       => Partitions(operands.a, found,
                     applyRelationalFilter("inside", operands.a, operands.a, TRUE, TRUE))
  /\ phase = "filterNotInsideInPlace(A,A)"
       => Partitions(operands.a,
                     applyRelationalFilter("inside", operands.a, operands.a, TRUE, FALSE),
                     found)

\* of three matches not_inside keeps the second, and inside the first, with its
\* binding, and the third, in order
C21_Witness ==
  /\ phase = "filterNotInside"
  /\ Len(operands.a) = 3
  /\ operands.a[1].bindings = B_X_a
  /\ operands.b = <<RangeMatch(<<0, 10>>, EmptyBindings)>>
  /\ found = <<operands.a[2]>>
  /\ filterInside(operands.a, operands.b) = <<operands.a[1], operands.a[3]>>

\* C22: intersect(A, A) = A, by value and in place, for every list A whose ranges
\* have start_byte <= end_byte.
C22_IntersectSelf ==
  (/\ phase \in {"intersect(A,A)", "intersectInPlace(A,A)"}
   /\ \A i \in 1..Len(operands.a) : operands.a[i].start_byte <= operands.a[i].end_byte)
    => found = operands.a

SameBytes(m, n) == m.start_byte = n.start_byte /\ m.end_byte = n.end_byte

NoRepeats(list) == \A i, j \in 1..Len(list) : SameBytes(list[i], list[j]) => i = j

\* the elements of b whose range no element of a and no earlier element of b has
NewOf(a, b) ==
  LET new == SelectSeq([i \in 1..Len(b) |-> i],
                       LAMBDA i : /\ \A k \in 1..Len(a) : ~SameBytes(a[k], b[i])
                                  /\ \A j \in 1..(i - 1) : ~SameBytes(b[j], b[i]))
  IN SubSeq([k \in 1..Len(new) |-> b[new[k]]], 1, Len(new))

\* the first MAX_MATCHES elements of list
Clipped(list) == SubSeq(list, 1, IF Len(list) < MAX_MATCHES THEN Len(list) ELSE MAX_MATCHES)

UnionPhases == {"unionMatches", "unionInPlace"}

\* C23 as stated: union(A, B) is A followed by each element of B whose range is
\* not already present; union(A, {}) = A; union(A, A) has no two matches with the
\* same range.
C23_UnionAsStated ==
  /\ phase \in UnionPhases => found = operands.a \o NewOf(operands.a, operands.b)
  /\ (phase \in UnionPhases /\ operands.b = EmptyList) => found = operands.a
  /\ phase = "unionMatches(A,A)" => NoRepeats(found)

\* C23: union(A, B) is the first MAX_MATCHES elements of A followed by each element
\* of B whose range is not already present; union(A, {}) = A; union(A, A) = A, with
\* no two matches of the same range when A has none.
C23_UnionClipped ==
  /\ phase \in UnionPhases
       => found = Clipped(operands.a \o NewOf(operands.a, operands.b))
  /\ (phase \in UnionPhases /\ operands.b = EmptyList) => found = operands.a
  /\ phase = "unionMatches(A,A)"
       => (found = operands.a /\ (NoRepeats(operands.a) => NoRepeats(found)))

\* the union of a full list with two matches of other ranges is the full list
C23_Witness ==
  /\ phase = "unionMatches"
  /\ operands.a = FullList
  /\ Len(operands.b) = 2 /\ NoRepeats(operands.b)
  /\ Len(NewOf(operands.a, operands.b)) = 2
  /\ found = FullList

(***************************************************************************)
(* Claims about the child pool (SpecDecode).                               *)
(***************************************************************************)
RECURSIVE NodeCount(_)
RECURSIVE NodeCountKids(_, _)
\* the number of rule nodes decodeRuleNode stores for a rule node and those below it
NodeCountKids(kids, k) ==
  IF k = 0 THEN 0 ELSE NodeCount(kids[k]) + NodeCountKids(kids, k - 1)
NodeCount(node) ==
  IF node.op \in {"all", "any"} THEN 1 + NodeCountKids(node.kids, Len(node.kids))
  ELSE IF node.op \in {"not", "inside", "has", "follows", "precedes"}
       THEN 1 + NodeCount(node.kid)
  ELSE 1

\* the node index of the k-th child of the all/any node stored at index idx
KidIndex(node, idx, k) == idx + 1 + NodeCountKids(node.kids, k - 1)

RECURSIVE ChildrenInPool(_, _, _, _)
\* for the node stored at idx and every all/any node below it, the pool entries of
\* the node are the indices of its children, in order
ChildrenInPool(node, idx, nodes, pool) ==
  IF node.op \in {"all", "any"}
  THEN /\ nodes[idx + 1].children_count = Len(node.kids)
       /\ \A k \in 1..Len(node.kids) :
            /\ PoolAt(pool, nodes[idx + 1].children_start + k - 1) = KidIndex(node, idx, k)
            /\ ChildrenInPool(node.kids[k], KidIndex(node, idx, k), nodes, pool)
  ELSE IF node.op \in {"not", "inside", "has", "follows", "precedes"}
       THEN ChildrenInPool(node.kid, idx + 1, nodes, pool)
  ELSE TRUE

\* C24: after load_ruleset has decoded the encoding of a ruleset, the pool entries
\* children_start .. children_start + children_count - 1 of every all/any node are
\* the node indices of its direct children in bytecode order, also when a child
\* is an all/any node itself.
C24_ChildrenContiguous ==
  \A rules \in DecodedRuleSets :
    (/\ last.op = "load_ruleset" /\ last.ret # 0 /\ ~last.trapped
     /\ input = encodeRules(rules))
      => \A i \in 1..Len(rules) :
           ChildrenInPool(rules[i].rule,
                          ruleset_slots[last.ret].rs.rules[i].root_node,
                          ruleset_slots[last.ret].rs.nodes, children_pool)

(***************************************************************************)
(* The tables the rulesets share: one ruleset is loaded for a compiled     *)
(* source, then other rulesets are loaded and freed and the first ruleset  *)
(* is applied.                                                             *)
(***************************************************************************)
\* any[eval($X), foo($X, $X)]
RS_two_patterns ==
  <<RuleDefinition(T_r0, <<>>, AnyRule(<<EvalPattern, PatternRule(P_fooXX.text)>>))>>

\* the rulesets loaded first
FirstRuleSets == {RS_any, RS_inside, RS_regex}
\* the rulesets loaded after the first, and a buffer cut one byte short
LaterBytecodes ==
  {encodeRules(RS_nested), encodeRules(RS_two_patterns),
   SubSeq(encodeRules(RS_nested), 1, Len(encodeRules(RS_nested)) - 1)}

\* compile_source(try source); load_ruleset(input), with `taken` patterns the host
\* compiled after it
InitShared ==
  LET st == LoadedNext(input, NothingLoaded)
      first == findFree(st.slots) + 1
  IN /\ pat = P_evalX
     /\ src = TryTree
     /\ found = EmptyList
     /\ phase = "host"
     /\ input \in {encodeRules(rules) : rules \in FirstRuleSets}
     /\ range = <<0, 0>>
     /\ operands = NoOperands
     /\ \E taken \in {0, MAX_COMPILED - first} :
          compiled_slots = [i \in 1..MAX_COMPILED |->
                              IF i >= first /\ i < first + taken
                              THEN CompiledPattern(P_fooXX.text, 1)
                              ELSE st.slots[i]]
     /\ source_slots = OneSlot(MAX_SOURCES, NullSource, CompiledSource(S_try_text, 1))
     /\ match_slots = [i \in 1..MAX_MATCH_SLOTS |-> NullMatches]
     /\ ruleset_slots = [i \in 1..MAX_RULESETS |->
                           IF i = 1 THEN st.rulesets[1] ELSE NullRuleset]
     /\ last_match_list = EmptyList
     /\ result = <<>>
     /\ children_pool = st.pool
     /\ children_pool_count = st.pool_count
     /\ eval_child_temp = EmptyList
     /\ eval_relational_temp = EmptyList
     /\ eval_merge_temp = EmptyList
     /\ last = [NoCall EXCEPT !.op = "load_ruleset", !.ret = 1]
     /\ ops = MaxSharedOps

NextShared ==
  \/ \E b \in LaterBytecodes, failAt \in {0, 2} : load_ruleset(b, failAt)
  \/ \E u \in UndefinedReads : apply_ruleset(1, 1, u)
  \/ \E h \in 1..MAX_RULESETS : free_ruleset(h)

SpecShared == InitShared /\ [][NextShared]_vars

(***************************************************************************)
(* Claims about the shared tables (SpecShared).                            *)
(***************************************************************************)
\* the first ruleset is still the one loaded in slot 1
FirstLoaded == ruleset_slots[1].active /\ ruleset_slots[1].rs.bytecode = input

\* C25: apply_ruleset on the first ruleset writes the findings of its rules on the
\* source, whatever other rulesets were loaded (or failed to load) or freed since
\* it was loaded.
C25_Independent ==
  \A rules \in FirstRuleSets :
    (Applied /\ last.h = 1 /\ FirstLoaded /\ input = encodeRules(rules))
      => result = ExpectedFindings(rules, ruleset_slots[1].rs, Parse(S_try_text))


\* C26: a load_ruleset call that returns 0 leaves the compiled-pattern table and
\* the ruleset table with exactly the occupied slots they had before the call.
C26_FailedLoadAcquiresNothing ==
  [][(last'.op = "load_ruleset" /\ last'.ret = 0 /\ ~last'.trapped)
       => /\ Occupied(compiled_slots') = Occupied(compiled_slots)
          /\ Occupied(ruleset_slots') = Occupied(ruleset_slots)]_vars

(***************************************************************************)
(* The compiled-pattern table under a loaded ruleset: the calls of         *)
(* SpecShared and the host's own compile_pattern and free_pattern.         *)
(***************************************************************************)
NextOwned ==
  \/ NextShared
  \/ compile_pattern(P_fooXX.text, 1, TRUE)
  \/ \E h \in {1, 2} : free_pattern(h)

SpecOwned == InitShared /\ [][NextOwned]_vars

\* the text of pattern node n of ruleset rs
PatternText(rs, n) ==
  SubSeq(rs.bytecode, rs.nodes[n].str_offset + 1, rs.nodes[n].str_offset + rs.nodes[n].str_len)

\* the pattern nodes of ruleset rs
PatternNodes(rs) == {n \in 1..Len(rs.nodes) : rs.nodes[n].tag = "pattern"}

\* slot i of the table `slots` holds the pattern compiled for a pattern node of rs
HoldsPatternOf(rs, slots, i) ==
  \E n \in PatternNodes(rs) :
    /\ rs.nodes[n].compiled_handle = i
    /\ slots[i] = CompiledPattern(PatternText(rs, n), RuleLanguage(rs))

\* every pattern node of a loaded ruleset has its compiled pattern in its slot
PatternsHeld ==
  \A h \in 1..MAX_RULESETS :
    ruleset_slots[h].active =>
      \A n \in PatternNodes(ruleset_slots[h].rs) :
        HoldsPatternOf(ruleset_slots[h].rs, compiled_slots,
                       ruleset_slots[h].rs.nodes[n].compiled_handle)

\* a free_ruleset call empties only slots that held the ruleset's own patterns
FreesOnlyOwn ==
  (last'.op = "free_ruleset" /\ ~last'.invalid)
    => \A i \in Occupied(compiled_slots) \ Occupied(compiled_slots') :
         HoldsPatternOf(ruleset_slots[last'.h].rs, compiled_slots, i)

\* C28: while a ruleset is loaded each of its pattern nodes has the compiled
\* pattern load_ruleset created for it in its slot, whatever free_pattern and
\* compile_pattern calls the host makes, and free_ruleset releases only slots that
\* hold the ruleset's own patterns.
C28_PatternOwnership == []PatternsHeld /\ [][FreesOnlyOwn]_vars

(***************************************************************************)
(* The bytecode buffer of a loaded ruleset.  CompiledRuleset.bytecode is a *)
(* slice of the buffer the host passed to load_ruleset, so its bytes are   *)
(* the bytes of the host's memory: what the host writes there is what the  *)
(* ruleset reads.                                                          *)
(***************************************************************************)
\* the offsets (0-based) at which the strings of ruleset rs start in its buffer
StringOffsets(rs) ==
  {rs.rules[i].id_offset : i \in 1..Len(rs.rules)}
    \cup {rs.rules[i].message_offset : i \in 1..Len(rs.rules)}
    \cup {rs.nodes[n].str_offset : n \in {k \in 1..Len(rs.nodes) : rs.nodes[k].str_len > 0}}
    \cup {rs.constraints[c].metavar_offset : c \in 1..Len(rs.constraints)}

\* a byte the host stores: "z"
HostByte == 122
\* what a freed buffer reads as once the allocator has handed it out again
ReusedFills == {0, HostByte}

\* the host stores a byte in the buffer it passed to load_ruleset
write_buffer(handle, at) ==
  /\ ruleset_slots[handle].active
  /\ at < Len(ruleset_slots[handle].rs.bytecode)
  /\ ruleset_slots' = [ruleset_slots EXCEPT ![handle].rs.bytecode[at + 1] = HostByte]
  /\ Returned("write_buffer", handle, 0, 0, FALSE, FALSE)
  /\ UNCHANGED <<runVars, compiled_slots, source_slots, match_slots, last_match_list,
                 result, poolVars, scratchVars>>

\* the host writes the bytecode back into the buffer
restore_buffer(handle) ==
  /\ ruleset_slots[handle].active
  /\ ruleset_slots' = [ruleset_slots EXCEPT ![handle].rs.bytecode = input]
  /\ Returned("restore_buffer", handle, 0, 0, FALSE, FALSE)
  /\ UNCHANGED <<runVars, compiled_slots, source_slots, match_slots, last_match_list,
                 result, poolVars, scratchVars>>

\* dealloc(ptr, len) of the buffer: the slice dangles, and reads through it see the
\* old bytes until the memory is handed out again and whatever is stored there after
dealloc(handle) ==
  /\ ruleset_slots[handle].active
  /\ \E reused \in BOOLEAN, fill \in ReusedFills :
       ruleset_slots' =
         [ruleset_slots EXCEPT ![handle].rs.bytecode =
            IF reused THEN [i \in 1..Len(input) |-> fill] ELSE @]
  /\ Returned("dealloc", handle, 0, 0, FALSE, FALSE)
  /\ UNCHANGED <<runVars, compiled_slots, source_slots, match_slots, last_match_list,
                 result, poolVars, scratchVars>>

NextBuffer ==
  \/ \E u \in UndefinedReads : apply_ruleset(1, 1, u)
  \/ \E at \in StringOffsets(ruleset_slots[1].rs) : write_buffer(1, at)
  \/ restore_buffer(1)
  \/ dealloc(1)

SpecBuffer == InitShared /\ [][NextBuffer]_vars

(***************************************************************************)
(* Claims about the bytecode buffer (SpecBuffer).                          *)
(***************************************************************************)
\* the ruleset in slot 1 as load_ruleset decoded it, reading the bytes loaded
AsLoaded == [ruleset_slots[1].rs EXCEPT !.bytecode = input]

\* the last call applied the ruleset in slot 1 and wrote the findings that the
\* rules of the bytecode loaded give on the source
ReportsAsLoaded ==
  \A rules \in FirstRuleSets :
    (Applied /\ last.h = 1 /\ input = encodeRules(rules))
      => result = ExpectedFindings(rules, AsLoaded, Parse(S_try_text))

RECURSIVE TreeNodes(_)
\* the named nodes of a tree
TreeNodes(node) == {node} \cup UNION {TreeNodes(node.kids[i]) : i \in 1..Len(node.kids)}

\* the bindings a call is entered with: none, X bound, Y bound
EntryBindings ==
  {EmptyBindings, B_X_a, bind(EmptyBindings, metavarName(T_Y), T_b, 5, 6).b}

\* matchNode that returns false leaves the bindings as they were on entry
MatchNodeRollsBack(p, s, bs) ==
  ~matchNode(p, s, bs, 0).ok => matchNode(p, s, bs, 0).b = bs

\* matchChildSeq that returns false leaves the bindings as they were on entry,
\* from whatever pair of child positions it is started
MatchChildSeqRollsBack(p, s, bs) ==
  \A pat_idx \in 0..Len(p.kids), src_idx \in 0..Len(s.kids) :
    LET r == matchChildSeq(p, pat_idx, Len(p.kids), s, src_idx, Len(s.kids), bs, 1)
    IN ~r.ok => r.b = bs

\* the argument nodes of the call that match m covers
ArgsAt(m) ==
  LET call == CHOOSE n \in TreeNodes(src) :
                n.kind = K_call_expression /\ n.sb = m.start_byte /\ n.eb = m.end_byte
  IN call.kids[2].kids

\* a match of foo(..., $X) binds X to the last argument and nothing else: the
\* arguments X was bound to while fewer were given to the ellipsis are gone
LastArgumentBound ==
  (phase = "done" /\ pat = P_fooDotsX)
    => \A i \in 1..Len(found) :
         /\ Len(found[i].bindings) = 1
         /\ found[i].bindings[1].name = metavarName(T_X)
         /\ found[i].bindings[1].text = ArgsAt(found[i])[Len(ArgsAt(found[i]))].text
         /\ found[i].bindings[1].start_byte = ArgsAt(found[i])[Len(ArgsAt(found[i]))].sb

\* C29: whenever matchNode or matchChildSeq returns false the bindings are what
\* they were on entry, for every pattern node, source node and entry bindings, and
\* a reported match holds no binding made in an abandoned alignment.
C29_RollsBack ==
  /\ \A p \in TreeNodes(pat), s \in TreeNodes(src), bs \in EntryBindings :
       MatchNodeRollsBack(p, s, bs) /\ MatchChildSeqRollsBack(p, s, bs)
  /\ LastArgumentBound

\* foo(..., $X) searched in foo(a, b, a) reported the call with X bound to the
\* third argument, after alignments that bound X to the first and the second
C29_Witness ==
  /\ phase = "done" /\ pat = P_fooDotsX /\ src = CallTree(T_foo, <<T_a, T_b, T_a>>)
  /\ Len(found) = 1
  /\ found[1].bindings[1].start_byte = 10
  /\ \A src_idx \in {0, 1} :
       ~matchChildSeq(pat.kids[1].kids[1].kids[2], 1, 2,
                      src.kids[1].kids[1].kids[2], src_idx, 3, EmptyBindings, 1).ok

(***************************************************************************)
(* Claims about the order of the matches (SpecSearch).                     *)
(***************************************************************************)
\* match m covers no byte
EmptyRange(m) == m.start_byte = m.end_byte

\* C30 as stated: for positions i < j of the result of a search,
\* start_byte(i) <= start_byte(j), and when the two start bytes are equal
\* end_byte(i) > end_byte(j).
C30_PreOrder ==
  Searched =>
    \A i, j \in 1..Len(found) :
      i < j => /\ found[i].start_byte <= found[j].start_byte
               /\ found[i].start_byte = found[j].start_byte
                    => found[i].end_byte > found[j].end_byte

\* C30: for positions i < j of the result of a search, start_byte(i) <=
\* start_byte(j), and when the two start bytes are equal the end bytes differ and
\* end_byte(i) > end_byte(j) unless match i covers no byte.
C30_PreOrderNonEmpty ==
  Searched =>
    \A i, j \in 1..Len(found) :
      i < j => /\ found[i].start_byte <= found[j].start_byte
               /\ found[i].start_byte = found[j].start_byte
                    => /\ found[i].end_byte # found[j].end_byte
                       /\ found[i].end_byte > found[j].end_byte \/ EmptyRange(found[i])

\* $X searched in obj.(x): the call (0, 7) is listed before the member expression
\* (0, 4) and the object (0, 3); the property name of width zero (4, 4) before the
\* argument list (4, 7) that starts where it stands
C30_Witness ==
  /\ phase = "done" /\ pat = P_X /\ src = S_missing
  /\ Len(found) = 6
  /\ <<found[1].start_byte, found[1].end_byte>> = <<0, 7>>
  /\ <<found[2].start_byte, found[2].end_byte>> = <<0, 4>>
  /\ <<found[3].start_byte, found[3].end_byte>> = <<0, 3>>
  /\ EmptyRange(found[4])
  /\ <<found[5].start_byte, found[5].end_byte>> = <<4, 7>>

=============================================================================
